---- MODULE Spec2Model ----
(***************************************************************************)
(* Model of the agent executor of rmcp-agent (src/agent/executor.rs):      *)
(* OpenAIMcpAgentExecutor::call and OpenAIMcpAgentExecutor::stream, the    *)
(* plan / act / observe loop around a planner and a set of tools.          *)
(*                                                                         *)
(* Text values (String) are sequences of string tokens; concatenation and  *)
(* format!() are \o.  Tool names are sequences of one-character strings so *)
(* that trim() and replace(" ", "_") are computed as the code computes     *)
(* them.  JSON null is Null, a missing key is Absent.                      *)
(***************************************************************************)
EXTENDS Integers, Sequences, FiniteSets, TLC

(***************************************************************************)
(* Bounds of the model.                                                    *)
(***************************************************************************)
MaxIterations == 2      \* max_iterations is drawn from 0..MaxIterations
MaxBatch == 2           \* longest Action batch the planner returns
MaxCycle == 3           \* the cycle counter saturates here
MaxDeltas == 1          \* planner sub-events forwarded over one invocation
MaxFragments == 3        \* accumulate calls on one accumulator
MaxSteps == 11           \* longest step list handed to construct_scratchpad
MaxBadSteps == 2         \* steps of one list whose log does not parse
MaxChunks == 2          \* chunks one model stream delivers
MaxOtherWrites == 1     \* messages another invocation adds to a shared Memory

Null == "null"
Absent == "absent"

(***************************************************************************)
(* Text helpers.                                                           *)
(***************************************************************************)
Last(s) == s[Len(s)]

\* t occurs in s as a contiguous run of tokens (str::contains)
Contains(s, t) ==
    \E i \in 0..(Len(s) - Len(t)) : \A j \in 1..Len(t) : s[i + j] = t[j]

(***************************************************************************)
(* Tool names: str::trim followed by str::replace(" ", "_").               *)
(***************************************************************************)
Whitespace == {" ", "\t"}

RECURSIVE TrimStart(_)
TrimStart(s) ==
    IF s # <<>> /\ Head(s) \in Whitespace THEN TrimStart(Tail(s)) ELSE s

RECURSIVE TrimEnd(_)
TrimEnd(s) ==
    IF s # <<>> /\ Last(s) \in Whitespace
    THEN TrimEnd(SubSeq(s, 1, Len(s) - 1))
    ELSE s

Trim(s) == TrimEnd(TrimStart(s))

ReplaceSpaces(s) == [i \in 1..Len(s) |-> IF s[i] = " " THEN "_" ELSE s[i]]

NormalizeName(s) == ReplaceSpaces(Trim(s))

(***************************************************************************)
(* The agent's tools (agent.get_tools()), by registered name, and the      *)
(* lookup table get_name_to_tools builds from them: normalized name ->     *)
(* index of the tool; a later tool of the same normalized name replaces an *)
(* earlier one (HashMap::insert).                                          *)
(***************************************************************************)
Tools == << <<"g", "e", "t">>, <<"a", " ", "b">> >>

NoTool == 0

name_to_tools(name) ==
    LET hits == {i \in 1..Len(Tools) : NormalizeName(Tools[i]) = name}
    IN  IF hits = {} THEN NoTool ELSE CHOOSE i \in hits : \A j \in hits : j <= i

\* a lookup under the name as the planner emitted it
ResolveToolRaw(action) == name_to_tools(action.tool)

\* name_to_tools.get(&action.tool.trim().replace(" ", "_"))
ResolveTool(action) == name_to_tools(NormalizeName(action.tool))

(***************************************************************************)
(* Actions the planner may return.  The log of an action is the serialized *)
(* LogTools {tool_id, tools}; tools_json says whether the tools payload is *)
(* itself valid JSON.                                                      *)
(***************************************************************************)
Log(id, payload, ok) == [tool_id |-> id, tools |-> payload, tools_json |-> ok]

AgentAction(tool, input, log) == [tool |-> tool, tool_input |-> input, log |-> log]

ActionPool ==
    { AgentAction(<<"g", "e", "t">>, <<"{}">>, Log("call_1", "batch_1", TRUE)),
      AgentAction(<<" ", "a", " ", "b">>, <<"{\"x\":1}">>, Log("call_2", "batch_1", TRUE)),
      AgentAction(<<"n", "o">>, <<"{}">>, Log("call_3", "batch_2", TRUE)) }

\* the sequences of at most n different elements of S
RECURSIVE SeqsUpTo(_, _)
SeqsUpTo(S, n) ==
    IF n = 0 THEN {<<>>}
    ELSE LET shorter == SeqsUpTo(S, n - 1)
             longest == {t \in shorter : Len(t) = n - 1}
         IN  shorter \cup {Append(t[1], t[2]) :
                               t \in {u \in longest \X S :
                                         \A i \in 1..(n - 1) : u[1][i] # u[2]}}

Batches == SeqsUpTo(ActionPool, MaxBatch)

FinishOutputs == {<<"done">>, <<>>}
PlanErrors == {<<"llm unavailable">>}
ContentDeltas == {<<"Hel">>, <<>>}
\* what each tool of Tools returns when it succeeds
ToolResults == << <<"42">>, <<"sunny">> >>
ToolErrors == {<<"timeout">>}
UserInput == <<"what time is it">>

\* Outcomes of one tool.call(): Ok(result) or Err(err)
ToolOutcomes ==
    {[ok |-> TRUE, text |-> ToolResults[i]] : i \in 1..Len(ToolResults)}
        \cup {[ok |-> FALSE, text |-> e] : e \in ToolErrors}

OutcomesOf(tool) == {o \in ToolOutcomes : o.ok => o.text = ToolResults[tool]}

(***************************************************************************)
(* Memory messages.                                                        *)
(***************************************************************************)
Message(role, content, tool_calls, tool_call_id) ==
    [role |-> role, content |-> content, tool_calls |-> tool_calls,
     tool_call_id |-> tool_call_id]

HumanMessage(text) == Message("human", text, Absent, Absent)
AiMessage(text) == Message("ai", text, Absent, Absent)
AiToolCallsMessageNoCalls(payload) == Message("ai", <<>>, Absent, Absent)

\* Message::new_ai_message("").with_tool_calls(tools_value)

AiToolCallsMessage(payload) == Message("ai", <<>>, payload, Absent)
ToolMessage(observation, id) == Message("tool", observation, Absent, id)

InitialMemories == {<<HumanMessage(<<"earlier">>), AiMessage(<<"reply">>)>>}

(***************************************************************************)
(* JSON values of the wire chunks.                                         *)
(***************************************************************************)
J(t, v) == [t |-> t, v |-> v]
JAbsent == J("absent", <<>>)
JNull == J("null", <<>>)
JStr(s) == J("string", s)
JParsed(s) == J("json", s)

\* serde_json::from_str::<Value>(&observation): the tool results that are
\* JSON texts
JsonTexts == {<<"42">>}

ParseObservation(observation) ==
    IF observation \in JsonTexts THEN JParsed(observation) ELSE JStr(observation)

NoToolCall == [id |-> Absent, name |-> <<>>, arguments |-> <<>>]

ToolCallJson(id, action) ==
    [id |-> id, name |-> action.tool, arguments |-> action.tool_input]

Delta(role, content, tool_call, parsed, tool_name, tool_call_id) ==
    [role |-> role, content |-> content, tool_calls |-> tool_call,
     parsed |-> parsed, tool_name |-> tool_name, tool_call_id |-> tool_call_id]

Chunk(delta, finish_reason) == [delta |-> delta, finish_reason |-> finish_reason]

InitialChunkWithContent ==
    Chunk(Delta("assistant", JStr(<<>>), NoToolCall, JAbsent, <<>>, Absent), Null)

\* executor.rs 200-219
InitialChunk ==
    Chunk(Delta("assistant", JNull, NoToolCall, JAbsent, <<>>, Absent), Null)

\* executor.rs 271-289
ContentChunk(content) ==
    Chunk(Delta(Absent, JStr(content), NoToolCall, JAbsent, <<>>, Absent), Null)

\* executor.rs 329-347
ToolCallDeltaChunk(id, action) ==
    Chunk(Delta(Absent, JAbsent, ToolCallJson(id, action), JAbsent, <<>>, Absent), Null)

\* executor.rs 404-422
ToolCallChunk(id, action) ==
    Chunk(Delta(Absent, JAbsent, ToolCallJson(id, action), JAbsent, <<>>, Absent), "")

ObservationChunkNoId(observation, tool, id) ==
    Chunk(Delta(Absent, JNull, NoToolCall, ParseObservation(observation),
                Tools[tool], Absent), Null)

\* executor.rs 470-493
ObservationChunk(observation, tool, id) ==
    Chunk(Delta(Absent, JNull, NoToolCall, ParseObservation(observation),
                Tools[tool], id), Null)

ErrorChunkNotTerminal(message) ==
    Chunk(Delta(Absent, JStr(message), NoToolCall, JAbsent, <<>>, Absent), Null)

\* executor.rs 240-258, 362-380, 432-450, 641-659: a fatal condition
ErrorChunk(message) ==
    Chunk(Delta(Absent, JStr(message), NoToolCall, JAbsent, <<>>, Absent), "stop")

\* executor.rs 618-634
FinishChunk ==
    Chunk(Delta(Absent, JAbsent, NoToolCall, JAbsent, <<>>, Absent), "stop")

MaxIterationsChunkStop ==
    Chunk(Delta(Absent, JStr(<<"Maximum iterations reached.">>), NoToolCall,
                JAbsent, <<>>, Absent), "stop")

\* executor.rs 674-692
MaxIterationsChunk ==
    Chunk(Delta(Absent, JStr(<<"Maximum iterations reached.">>), NoToolCall,
                JAbsent, <<>>, Absent), "length")

(***************************************************************************)
(* Results of call().                                                      *)
(***************************************************************************)
Result(status, kind, text) == [status |-> status, kind |-> kind, text |-> text]
Pending == Result("pending", "", <<>>)
Ok(generation) == Result("ok", "GenerateResult", generation)
Err(kind, text) == Result("err", kind, text)

MaxIterationsReached == <<"Max iterations reached">>

\* format!("Tool {} not found", action.tool)
ToolNotFoundMessage(action) == <<"Tool ">> \o action.tool \o <<" not found">>

CallErrorObservationNoText(error_msg) ==
    <<"The tool return the following error: ">>

\* executor.rs 118
CallErrorObservation(error_msg) ==
    <<"The tool return the following error: ">> \o error_msg

StreamErrorObservationNoText(err) == <<"Tool error: ">>

\* executor.rs 428-429
StreamErrorObservation(err) == <<"Tool error: ">> \o err

CapReachedOffByOne(step_list, cap) == Len(step_list) > cap

\* steps.len() >= max_iterations as usize
CapReached(step_list, cap) == Len(step_list) >= cap

(***************************************************************************)
(* Persisting steps to Memory.                                             *)
(***************************************************************************)
Step(action, observation) == [action |-> action, observation |-> observation]

\* serde_json::from_str::<LogTools>(&action.log) succeeds
LogToolsParses(log) == log.tool_id # Absent /\ log.tools # Absent

StepMessagesNoDedup(step, seen) ==
    <<AiToolCallsMessage(step.action.log.tools),
      ToolMessage(step.observation, step.action.log.tool_id)>>

\* executor.rs 138-145: the AI tool-calls message is added unless its payload
\* was seen in this pass, then the tool message

StepMessages(step, seen) ==
    (IF step.action.log.tools \in seen
     THEN <<>>
     ELSE <<AiToolCallsMessage(step.action.log.tools)>>)
        \o <<ToolMessage(step.observation, step.action.log.tool_id)>>

\* executor.rs 136-146: the first step whose log or tools payload does not
\* parse ends the loop with an error (the ? operator)
RECURSIVE PersistStepsCall(_, _, _)
PersistStepsCall(step_list, seen, mem) ==
    IF step_list = <<>> THEN [ok |-> TRUE, memory |-> mem]
    ELSE LET step == Head(step_list)
             log == step.action.log
         IN  IF ~LogToolsParses(log) \/ ~log.tools_json
             THEN [ok |-> FALSE, memory |-> mem]
             ELSE PersistStepsCall(Tail(step_list), seen \cup {log.tools},
                                   mem \o StepMessages(step, seen))

\* executor.rs 511-552 and 576-614: a step that does not parse is skipped
RECURSIVE PersistStepsStream(_, _, _)
PersistStepsStream(step_list, seen, mem) ==
    IF step_list = <<>> THEN mem
    ELSE LET step == Head(step_list)
             log == step.action.log
         IN  IF ~LogToolsParses(log) THEN PersistStepsStream(Tail(step_list), seen, mem)
             ELSE IF ~log.tools_json
             THEN PersistStepsStream(Tail(step_list), seen, mem)
             ELSE PersistStepsStream(Tail(step_list), seen \cup {log.tools},
                                     mem \o StepMessages(step, seen))

\* Uuid::now_v7(): the n-th fresh identifier
UuidPool == <<"uuid_1", "uuid_2", "uuid_3", "uuid_4", "uuid_5", "uuid_6", "uuid_7", "uuid_8">>
Uuid(n) == UuidPool[n]

(***************************************************************************)
(* JSON text (serde_json::to_string / from_str).  A text is a sequence of  *)
(* tokens: the characters of the string values, and the punctuation and    *)
(* key names of the document.                                              *)
(***************************************************************************)
Quote == "\""
Backslash == "\\"

\* the characters of a string value, escaped (the two halves of a string are
\* escaped independently of each other)
RECURSIVE Escape(_)
Escape(s) ==
    IF s = <<>> THEN <<>>
    ELSE IF Len(s) = 1
    THEN (IF s[1] \in {Quote, Backslash} THEN <<Backslash, s[1]>> ELSE s)
    ELSE LET mid == Len(s) \div 2
         IN  Escape(SubSeq(s, 1, mid)) \o Escape(SubSeq(s, mid + 1, Len(s)))

\* a string value as JSON text
EncodeStr(s) == <<Quote>> \o Escape(s) \o <<Quote>>

\* an Option<String> (a J value: null or string) as JSON text
EncodeOpt(j) == IF j.t = "string" THEN EncodeStr(j.v) ELSE <<"null">>

ParseFailure == [ok |-> FALSE, value |-> JNull, rest |-> <<>>]

\* The string reader scans text[lo..hi], entered after a backslash (escaped) or
\* not; a scan tells whether the closing quote was met and where, whether it
\* ends after a backslash, and the characters read.
ScanResult(closed, at, escaped, read) ==
    [closed |-> closed, at |-> at, escaped |-> escaped, read |-> read]

\* the scan of the one token text[at]
ScanOne(token, at, escaped) ==
    IF escaped THEN ScanResult(FALSE, 0, FALSE, <<token>>)
    ELSE IF token = Quote THEN ScanResult(TRUE, at, FALSE, <<>>)
    ELSE IF token = Backslash THEN ScanResult(FALSE, 0, TRUE, <<>>)
    ELSE ScanResult(FALSE, 0, FALSE, <<token>>)

\* a scan continued by the scan of what follows it
ScanJoin(left, right) ==
    ScanResult(right.closed, right.at, right.escaped, left.read \o right.read)

RECURSIVE Scan(_, _, _, _)
\* the scan of text[mid+1..hi] after the scan left of text[..mid], which is
\* entered in the state left ends in, unless left met the closing quote
ScanRight(text, mid, hi, left) ==
    IF left.closed THEN left
    ELSE ScanJoin(left, Scan(text, mid + 1, hi, left.escaped))

Scan(text, lo, hi, escaped) ==
    IF lo = hi THEN ScanOne(text[lo], lo, escaped)
    ELSE ScanRight(text, (lo + hi) \div 2, hi,
                   Scan(text, lo, (lo + hi) \div 2, escaped))

\* the string value of a scan that met the closing quote
ScannedString(text, scan) ==
    IF scan.closed
    THEN [ok |-> TRUE, value |-> JStr(scan.read),
          rest |-> SubSeq(text, scan.at + 1, Len(text))]
    ELSE ParseFailure

\* reads the characters of a string value up to its closing quote
ReadChars(text) ==
    IF text = <<>> THEN ParseFailure
    ELSE ScannedString(text, Scan(text, 1, Len(text), FALSE))

\* reads one JSON value that is a string or null
ReadValue(text) ==
    IF text = <<>> THEN ParseFailure
    ELSE IF Head(text) = "null"
    THEN [ok |-> TRUE, value |-> JNull, rest |-> Tail(text)]
    ELSE IF Head(text) = Quote THEN ReadChars(Tail(text))
    ELSE ParseFailure

\* the text after the given punctuation and key tokens, if it starts with them
StartsWith(text, tokens) ==
    Len(text) >= Len(tokens) /\ SubSeq(text, 1, Len(tokens)) = tokens

After(text, tokens) == SubSeq(text, Len(tokens) + 1, Len(text))

\* "key":
Key(name) == EncodeStr(<<name>>) \o <<":">>

(***************************************************************************)
(* ToolCallAccumulator, core.rs 278-366.                                   *)
(***************************************************************************)
\* construct_scratchpad has not returned yet
NoScratchpad == [ok |-> FALSE, thoughts |-> <<>>]

\* no AgentAction returned yet
NoAction == AgentAction(<<>>, <<>>, <<>>)

\* core.rs 285-291: ToolCallAccumulator::new (None is the J value null)
NewAccumulator == [name |-> JNull, args |-> <<>>, id |-> JNull]

\* Option::unwrap_or_default
UnwrapOrDefault(j) == IF j.t = "string" THEN j.v ELSE <<>>

\* the substitution made for an empty buffer only, without the trim
ProcessedArgsNoTrim(args_chunk) ==
    IF args_chunk = <<>> THEN <<"{", "}">> ELSE args_chunk

\* core.rs 326-330
ProcessedArgs(args_chunk) ==
    IF Trim(args_chunk) = <<>> THEN <<"{", "}">> ELSE args_chunk

\* core.rs 332-345: serde_json::to_string(&json!([function_call_response]))
ToolsOutput(a, processed_args) ==
    <<"[", "{">> \o Key("id") \o EncodeOpt(a.id)
        \o <<",">> \o Key("type") \o EncodeStr(<<"function">>)
        \o <<",">> \o Key("function") \o <<"{">>
        \o Key("name") \o EncodeOpt(a.name)
        \o <<",">> \o Key("arguments") \o EncodeStr(processed_args)
        \o <<"}", "}", "]">>

\* core.rs 347-358: serde_json::to_string(&LogTools { tool_id, tools })
LogStr(tool_id, tools) ==
    <<"{">> \o Key("tool_id") \o EncodeStr(tool_id)
        \o <<",">> \o Key("tools") \o EncodeStr(tools) \o <<"}">>

\* core.rs 325-365
ToActionChunk(a, args_chunk) ==
    LET processed_args == ProcessedArgs(args_chunk)
    IN  AgentAction(UnwrapOrDefault(a.name), processed_args,
                    LogStr(UnwrapOrDefault(a.id), ToolsOutput(a, processed_args)))

\* a delta of the model's stream: tool_calls[0].id, .function.name and
\* .function.arguments, each a string or missing (as_str() gives None)
ToolCallDelta(id, name, arguments) ==
    [id |-> id, name |-> name, arguments |-> arguments]

\* an accumulator whose argument buffer holds the latest fragment only
AccumulatedOverwrites(a, delta) ==
    [name |-> IF delta.name.t = "string" THEN delta.name ELSE a.name,
     args |-> IF delta.arguments.t = "string" THEN delta.arguments.v ELSE a.args,
     id |-> IF delta.id.t = "string" /\ delta.id.v # <<>> THEN delta.id ELSE a.id]

\* core.rs 296-315: the accumulator after accumulate(delta)
Accumulated(a, delta) ==
    [name |-> IF delta.name.t = "string" THEN delta.name ELSE a.name,
     args |-> IF delta.arguments.t = "string" THEN a.args \o delta.arguments.v
              ELSE a.args,
     id |-> IF delta.id.t = "string" /\ delta.id.v # <<>> THEN delta.id ELSE a.id]

\* core.rs 294, 305-308: args_chunk of accumulate(delta)
ArgsChunk(delta) ==
    IF delta.arguments.t = "string" THEN delta.arguments.v ELSE <<>>

(***************************************************************************)
(* State.                                                                  *)
(***************************************************************************)
VARIABLES
    max_iterations,           \* self.max_iterations (always Some(n))
    break_if_error,           \* self.break_if_error
    has_memory,               \* self.memory.is_some()
    memory,                   \* the messages of the Memory
    mode,                     \* "none", "call" or "stream"
    pc,                       \* position of the invocation
    chat_history,             \* input_variables["chat_history"]
    steps,                    \* steps
    current_iteration_steps,  \* stream: current_iteration_steps
    accumulated_content,      \* stream: accumulated_content
    batch,                    \* actions of the batch not yet processed
    tool_call_id,             \* stream: tool_call_id of the action in flight
    tx,                       \* chunks sent on the delivery channel
    closed,                   \* the producer task has ended (tx dropped)
    result,                   \* what call() returned
    in_flight,                \* indices into tool_log of calls not yet returned
    tool_log,                 \* every tool.call() made, in dispatch order
    cycle,                    \* planner calls made (saturating at MaxCycle)
    deltas,                   \* planner sub-events forwarded
    minted,                   \* identifiers minted
    exit,                     \* why the invocation ended
    last_plan,                \* the planner's latest decision
    planned,                  \* every action the planner returned, in order
    batch_sizes,              \* the sizes of the batches the planner returned
    lock,                     \* the Memory mutex: "free" or "held" by this invocation
    rx,                       \* the consumer side: "open", "dropped", "send_failed"
    initial_memory,           \* the messages of the Memory before the invocation
    acc,                      \* a ToolCallAccumulator: name, args, id
    acc_pc,                   \* "open", or "taken" once take_action has run
    produced,                 \* the AgentAction the accumulator returned last
    fragments,                \* accumulate calls made
    fed_args,                 \* the argument fragments fed, in order
    first_id,                 \* the first non-empty id fed
    pad_steps,                \* the intermediate steps handed to construct_scratchpad
    pad_pc,                   \* "collect", or "built" once construct_scratchpad has run
    scratchpad,               \* what construct_scratchpad returned
    model_output,             \* plan_stream: model_output
    has_tool_calls,           \* plan_stream: has_tool_calls
    chunks,                   \* the chunks the model stream has delivered
    yielded,                  \* the items plan_stream's stream has yielded
    plan_pc                   \* "streaming", "ended" or "failed"; "foreign": another planner's stream

vars == <<max_iterations, break_if_error, has_memory, memory, mode, pc,
          chat_history, steps, current_iteration_steps, accumulated_content,
          batch, tool_call_id, tx, closed, result, in_flight, tool_log, cycle,
          deltas, minted, exit, last_plan, planned, batch_sizes, lock,
          rx, initial_memory, acc, acc_pc, produced, fragments, fed_args,
          first_id, pad_steps, pad_pc, scratchpad, model_output,
          has_tool_calls, chunks, yielded, plan_pc>>

history == <<last_plan, planned, batch_sizes>>
config == <<max_iterations, break_if_error, has_memory, initial_memory>>
locals == <<current_iteration_steps, accumulated_content, tool_call_id>>
channel == <<tx, closed, rx>>
accumulator == <<acc, acc_pc, produced, fragments, fed_args, first_id>>
pad == <<pad_steps, pad_pc, scratchpad>>
planning == <<model_output, has_tool_calls, chunks, yielded, plan_pc>>
planner == <<accumulator, pad, planning>>
executor == <<config, lock, memory, mode, pc, chat_history, steps, locals,
              batch, channel, result, in_flight, tool_log, cycle, deltas,
              minted, exit, history>>

\* the state after construction, for the given choices of max_iterations and
\* of whether a Memory is configured
Constructed(caps, memory_options) ==
    /\ max_iterations \in caps
    /\ break_if_error \in BOOLEAN
    /\ has_memory \in memory_options
    /\ memory \in (IF has_memory THEN InitialMemories ELSE {<<>>})
    /\ mode = "none"
    /\ pc = "idle"
    /\ chat_history = <<>>
    /\ steps = <<>>
    /\ current_iteration_steps = <<>>
    /\ accumulated_content = <<>>
    /\ batch = <<>>
    /\ tool_call_id = Absent
    /\ tx = <<>>
    /\ closed = FALSE
    /\ result = Pending
    /\ in_flight = {}
    /\ tool_log = <<>>
    /\ cycle = 0
    /\ deltas = 0
    /\ minted = 0
    /\ exit = "none"
    /\ last_plan = [kind |-> "none", output |-> <<>>]
    /\ planned = <<>>
    /\ batch_sizes = {}
    /\ lock = "free"
    /\ rx = "open"
    /\ initial_memory = memory
    /\ acc = NewAccumulator
    /\ acc_pc = "open"
    /\ produced = NoAction
    /\ fragments = 0
    /\ fed_args = <<>>
    /\ first_id = JNull
    /\ pad_steps = <<>>
    /\ pad_pc = "collect"
    /\ scratchpad = NoScratchpad
    /\ model_output = <<>>
    /\ has_tool_calls = FALSE
    /\ chunks = <<>>
    /\ yielded = <<>>
    /\ plan_pc = "streaming"

Init == Constructed(0..MaxIterations, BOOLEAN)

NextCycle == IF cycle < MaxCycle THEN cycle + 1 ELSE cycle

\* the planner's decision is recorded
Planned(kind, output, actions) ==
    /\ last_plan' = [kind |-> kind, output |-> output]
    /\ planned' = planned \o actions
    /\ batch_sizes' = (IF kind = "action" THEN batch_sizes \cup {Len(actions)}
                       ELSE batch_sizes)

NoOutcome == [ok |-> FALSE, text |-> <<>>]

\* tool.call(&action.tool_input) is started
Dispatch(action, tool) ==
    /\ tool_log' = Append(tool_log,
                          [action |-> action, tool |-> tool, outcome |-> NoOutcome])
    /\ in_flight' = in_flight \cup {Len(tool_log) + 1}

\* the tool call in flight returns
Return(outcome) ==
    /\ outcome \in OutcomesOf(Last(tool_log).tool)
    /\ in_flight' = in_flight \ {Len(tool_log)}
    /\ tool_log' = [tool_log EXCEPT ![Len(tool_log)].outcome = outcome]

(***************************************************************************)
(* The Memory mutex (tokio::sync::Mutex): memory.lock().await returns a    *)
(* guard that is dropped at the end of the block that took it.             *)
(***************************************************************************)
\* the guard is held (without a Memory there is nothing to take)
Locked == has_memory => lock = "held"

UnlockLate == lock' = lock

\* the guard goes out of scope
Unlock == lock' = "free"

\* the positions at which the invocation awaits memory.lock()
LockPoint ==
    \/ pc \in {"idle", "finish", "flush_steps", "refresh"}
    \/ mode = "stream" /\ pc = "batch" /\ batch = <<>> /\ accumulated_content # <<>>

\* memory.lock().await returns the guard
MemoryLock ==
    /\ has_memory
    /\ lock = "free"
    /\ LockPoint
    /\ lock' = "held"
    /\ UNCHANGED <<planner, config, memory, mode, pc, chat_history, steps, locals, batch,
                   channel, result, in_flight, tool_log, cycle, deltas, minted,
                   exit, history>>

(***************************************************************************)
(* call(), executor.rs 75-167.                                             *)
(***************************************************************************)
\* executor.rs 76-88: the guard of memory.lock().await lives to the end of
\* the if-let block
CallStart ==
    /\ pc = "idle"
    /\ Locked
    /\ Unlock
    /\ mode' = "call"
    /\ chat_history' = (IF has_memory THEN memory ELSE <<>>)
    /\ steps' = <<>>
    /\ pc' = "plan"
    /\ UNCHANGED <<planner, config, memory, locals, batch, channel, result, in_flight,
                   tool_log, cycle, deltas, minted, exit,
                   history>>

\* executor.rs 91-95: agent.plan fails
CallPlanError(e) ==
    /\ mode = "call" /\ pc = "plan"
    /\ cycle' = NextCycle
    /\ result' = Err("AgentError", <<"Error in agent planning: ">> \o e)
    /\ exit' = "planning_error"
    /\ pc' = "done"
    /\ Planned("error", e, <<>>)
    /\ UNCHANGED <<planner, config, lock, memory, mode, chat_history, steps, locals, batch,
                   channel, in_flight, tool_log, deltas, minted>>

\* executor.rs 98-99: agent.plan returns Action(actions)
CallPlanAction(actions) ==
    /\ mode = "call" /\ pc = "plan"
    /\ cycle' = NextCycle
    /\ batch' = actions
    /\ pc' = "batch"
    /\ Planned("action", <<>>, actions)
    /\ UNCHANGED <<planner, config, lock, memory, mode, chat_history, steps, locals, channel,
                   result, in_flight, tool_log, deltas, minted, exit>>

\* executor.rs 126: agent.plan returns Finish(finish)
CallPlanFinish(output) ==
    /\ mode = "call" /\ pc = "plan"
    /\ cycle' = NextCycle
    /\ pc' = "finish"
    /\ Planned("finish", output, <<>>)
    /\ UNCHANGED <<planner, config, lock, memory, mode, chat_history, steps, locals,
                   batch, channel, result, in_flight, tool_log, deltas, minted,
                   exit>>

CallFinishDefault ==
    /\ mode = "call" /\ pc = "finish"
    /\ Locked
    /\ Unlock
    /\ memory' = (IF has_memory
                  THEN PersistStepsCall(steps, {}, Append(memory, HumanMessage(UserInput))).memory
                  ELSE memory)
    /\ result' = Ok(<<>>)
    /\ exit' = "finish"
    /\ pc' = "done"
    /\ UNCHANGED <<planner, config, mode, chat_history, steps, locals, batch, channel,
                   in_flight, tool_log, cycle, deltas, minted, history>>

\* executor.rs 127-155: the turn is written to Memory under one guard and
\* finish.output is returned
CallFinish ==
    /\ mode = "call" /\ pc = "finish"
    /\ Locked
    /\ Unlock
    /\ LET output == last_plan.output
           persisted == PersistStepsCall(steps, {}, Append(memory, HumanMessage(UserInput)))
       IN  IF ~has_memory
           THEN /\ memory' = memory
                /\ result' = Ok(output)
                /\ exit' = "finish"
           ELSE IF persisted.ok
           THEN /\ memory' = Append(persisted.memory, AiMessage(output))
                /\ result' = Ok(output)
                /\ exit' = "finish"
           ELSE /\ memory' = persisted.memory
                /\ result' = Err("SerdeJsonError", <<>>)
                /\ exit' = "serialization_error"
    /\ pc' = "done"
    /\ UNCHANGED <<planner, config, mode, chat_history, steps, locals, batch, channel,
                   in_flight, tool_log, cycle, deltas, minted, history>>

CallActionLenient ==
    /\ mode = "call" /\ pc = "batch" /\ batch # <<>>
    /\ LET action == Head(batch)
           tool == ResolveTool(action)
       IN  IF tool = NoTool /\ break_if_error
           THEN /\ result' = Err("ToolError", ToolNotFoundMessage(action))
                /\ exit' = "tool_not_found"
                /\ pc' = "done"
                /\ UNCHANGED <<in_flight, tool_log, steps, batch>>
           ELSE IF tool = NoTool
           THEN /\ steps' = Append(steps, Step(action, ToolNotFoundMessage(action)))
                /\ batch' = Tail(batch)
                /\ UNCHANGED <<in_flight, tool_log, result, exit, pc>>
           ELSE /\ Dispatch(action, tool)
                /\ pc' = "tool"
                /\ UNCHANGED <<result, exit, steps, batch>>
    /\ UNCHANGED <<planner, config, lock, memory, mode, chat_history, locals, channel, cycle,
                   deltas, minted, history>>

\* executor.rs 99-108: the next action of the batch: tool lookup and dispatch
CallAction ==
    /\ mode = "call" /\ pc = "batch" /\ batch # <<>>
    /\ LET action == Head(batch)
           tool == ResolveTool(action)
       IN  IF tool = NoTool
           THEN /\ result' = Err("ToolError", ToolNotFoundMessage(action))
                /\ exit' = "tool_not_found"
                /\ pc' = "done"
                /\ UNCHANGED <<in_flight, tool_log>>
           ELSE /\ Dispatch(action, tool)
                /\ pc' = "tool"
                /\ UNCHANGED <<result, exit>>
    /\ UNCHANGED <<planner, config, lock, memory, mode, chat_history, steps, locals, batch,
                   channel, cycle, deltas, minted,
                   history>>

CallToolReturnIgnoresPolicy(outcome) ==
    /\ mode = "call" /\ pc = "tool"
    /\ Return(outcome)
    /\ steps' = Append(steps,
            Step(Head(batch),
                 IF outcome.ok THEN outcome.text
                 ELSE CallErrorObservation(outcome.text)))
    /\ batch' = Tail(batch)
    /\ pc' = "batch"
    /\ UNCHANGED <<result, exit>>
    /\ UNCHANGED <<planner, config, lock, memory, mode, chat_history, locals, channel,
                   cycle, deltas, minted, history>>

\* executor.rs 108-123: the tool call returns
CallToolReturn(outcome) ==
    /\ mode = "call" /\ pc = "tool"
    /\ Return(outcome)
    /\ IF ~outcome.ok /\ break_if_error
       THEN /\ result' = Err("ToolError", outcome.text)
            /\ exit' = "tool_error"
            /\ pc' = "done"
            /\ UNCHANGED <<steps, batch>>
       ELSE /\ steps' = Append(steps,
                   Step(Head(batch),
                        IF outcome.ok THEN outcome.text
                        ELSE CallErrorObservation(outcome.text)))
            /\ batch' = Tail(batch)
            /\ pc' = "batch"
            /\ UNCHANGED <<result, exit>>
    /\ UNCHANGED <<planner, config, lock, memory, mode, chat_history, locals, channel,
                   cycle, deltas, minted, history>>

CallCheckError ==
    /\ mode = "call" /\ pc = "batch" /\ batch = <<>>
    /\ IF CapReached(steps, max_iterations)
       THEN /\ result' = Err("AgentError", MaxIterationsReached)
            /\ exit' = "max_iterations"
            /\ pc' = "done"
       ELSE /\ pc' = "plan"
            /\ UNCHANGED <<result, exit>>
    /\ UNCHANGED <<planner, config, lock, memory, mode, chat_history, steps, locals, batch,
                   channel, in_flight, tool_log, cycle, deltas, minted,
                   history>>

\* executor.rs 158-165: after the batch, the iteration cap
CallCheck ==
    /\ mode = "call" /\ pc = "batch" /\ batch = <<>>
    /\ IF CapReached(steps, max_iterations)
       THEN /\ result' = Ok(MaxIterationsReached)
            /\ exit' = "max_iterations"
            /\ pc' = "done"
       ELSE /\ pc' = "plan"
            /\ UNCHANGED <<result, exit>>
    /\ UNCHANGED <<planner, config, lock, memory, mode, chat_history, steps, locals, batch,
                   channel, in_flight, tool_log, cycle, deltas, minted,
                   history>>

(***************************************************************************)
(* stream(), executor.rs 169-700.                                          *)
(***************************************************************************)
\* Partial actions the planner forwards as Delta(Action) sub-events
PartialActions ==
    { AgentAction(<<"g", "e", "t">>, <<"{">>, Log("call_1", "batch_1", TRUE)),
      AgentAction(<<>>, <<"{}">>, Log(Absent, Absent, FALSE)) }

\* let _ = tx.send(..): the channel is unbounded, the send never blocks; once
\* the receiver is dropped the send fails, the chunk is not queued and the
\* error is discarded
Send(chunk) ==
    IF rx = "open"
    THEN tx' = Append(tx, chunk) /\ rx' = rx
    ELSE tx' = tx /\ rx' = "send_failed"

\* the caller drops the stream returned by stream() while the producer runs
ConsumerDrop ==
    /\ mode = "stream" /\ ~closed /\ rx = "open"
    /\ rx' = "dropped"
    /\ UNCHANGED <<planner, config, lock, memory, mode, pc, chat_history, steps, locals,
                   batch, tx, closed, result, in_flight, tool_log, cycle, deltas,
                   minted, exit, history>>

\* a send followed by return: the task ends and tx is dropped
SendLast(chunk, reason) ==
    /\ Send(chunk)
    /\ closed' = TRUE
    /\ exit' = reason
    /\ pc' = "done"

\* executor.rs 174-226: stream() up to the spawn of the producer task
StreamStart ==
    /\ pc = "idle"
    /\ Locked
    /\ Unlock
    /\ mode' = "stream"
    /\ chat_history' = (IF has_memory THEN memory ELSE <<>>)
    /\ steps' = <<>>
    /\ Send(InitialChunk)
    /\ pc' = "plan"
    /\ UNCHANGED <<planner, config, memory, locals, batch, closed, result, in_flight,
                   tool_log, cycle, deltas, minted, exit,
                   history>>

\* executor.rs 233-261: a new cycle; agent.plan_stream fails
StreamPlanError(e) ==
    /\ mode = "stream" /\ pc = "plan"
    /\ cycle' = NextCycle
    /\ accumulated_content' = <<>>
    /\ current_iteration_steps' = <<>>
    /\ SendLast(ErrorChunk(<<"Error: ">> \o e), "planning_error")
    /\ Planned("error", e, <<>>)
    /\ UNCHANGED <<planner, config, lock, memory, mode, chat_history, steps, batch,
                   tool_call_id, result, in_flight, tool_log, deltas, minted>>

\* executor.rs 233-238: a new cycle; agent.plan_stream returns a stream
StreamPlanOpen ==
    /\ mode = "stream" /\ pc = "plan"
    /\ cycle' = NextCycle
    /\ accumulated_content' = <<>>
    /\ current_iteration_steps' = <<>>
    /\ pc' = "plan_stream"
    /\ UNCHANGED <<planner, config, lock, memory, mode, chat_history, steps, batch,
                   tool_call_id, channel, result, in_flight, tool_log, deltas,
                   minted, exit,
                   history>>

\* executor.rs 267-291: Delta(Content(content))
StreamDeltaContent(content) ==
    /\ mode = "stream" /\ pc = "plan_stream"
    /\ deltas < MaxDeltas
    /\ deltas' = deltas + 1
    /\ IF content # <<>>
       THEN /\ accumulated_content' = accumulated_content \o content
            /\ Send(ContentChunk(content))
       ELSE UNCHANGED <<accumulated_content, tx, rx>>
    /\ UNCHANGED <<planner, config, lock, memory, mode, pc, chat_history, steps,
                   current_iteration_steps, batch, tool_call_id, closed, result,
                   in_flight, tool_log, cycle, minted, exit,
                   history>>

\* executor.rs 292-348: Delta(Action(action))
StreamDeltaAction(action) ==
    /\ mode = "stream" /\ pc = "plan_stream"
    /\ deltas < MaxDeltas
    /\ deltas' = deltas + 1
    /\ IF action.log.tool_id # Absent
       THEN /\ Send(ToolCallDeltaChunk(action.log.tool_id, action))
            /\ UNCHANGED minted
       ELSE /\ Send(ToolCallDeltaChunk(Uuid(minted + 1), action))
            /\ minted' = minted + 1
    /\ UNCHANGED <<planner, config, lock, memory, mode, pc, chat_history, steps, locals, batch,
                   closed, result, in_flight, tool_log, cycle, exit,
                   history>>

StreamItemErrorSkips(e) ==
    /\ mode = "stream" /\ pc = "plan_stream"
    /\ Planned("error", e, <<>>)
    /\ UNCHANGED <<planner, config, lock, memory, mode, pc, chat_history, steps, locals, batch,
                   channel, exit, result, in_flight, tool_log, cycle, deltas,
                   minted>>

\* executor.rs 640-661: the planner stream yields an error item
StreamItemError(e) ==
    /\ mode = "stream" /\ pc = "plan_stream"
    /\ SendLast(ErrorChunk(<<"Stream error: ">> \o e), "stream_error")
    /\ Planned("error", e, <<>>)
    /\ UNCHANGED <<planner, config, lock, memory, mode, chat_history, steps, locals, batch,
                   result, in_flight, tool_log, cycle, deltas, minted>>

\* executor.rs 350-354: Final(Action(actions))
StreamFinalAction(actions) ==
    /\ mode = "stream" /\ pc = "plan_stream"
    /\ batch' = actions
    /\ pc' = "batch"
    /\ Planned("action", <<>>, actions)
    /\ UNCHANGED <<planner, config, lock, memory, mode, chat_history, steps, locals, channel,
                   result, in_flight, tool_log, cycle, deltas, minted, exit>>

\* executor.rs 354-425: the next action of the batch: tool lookup, tool-call
\* chunk and dispatch
StreamAction ==
    /\ mode = "stream" /\ pc = "batch" /\ batch # <<>>
    /\ LET action == Head(batch)
           tool == ResolveTool(action)
           id == IF action.log.tool_id # Absent THEN action.log.tool_id
                 ELSE Uuid(minted + 1)
       IN  IF tool = NoTool
           THEN /\ SendLast(ErrorChunk(ToolNotFoundMessage(action)), "tool_not_found")
                /\ UNCHANGED <<in_flight, tool_log, tool_call_id, minted>>
           ELSE /\ Send(ToolCallChunk(id, action))
                /\ tool_call_id' = id
                /\ minted' = (IF action.log.tool_id # Absent THEN minted ELSE minted + 1)
                /\ Dispatch(action, tool)
                /\ pc' = "tool"
                /\ UNCHANGED <<closed, exit>>
    /\ UNCHANGED <<planner, config, lock, memory, mode, chat_history, steps,
                   current_iteration_steps, accumulated_content, batch, result,
                   cycle, deltas,
                   history>>

StreamToolReturnPrepends(outcome) ==
    /\ mode = "stream" /\ pc = "tool"
    /\ Return(outcome)
    /\ LET action == Head(batch)
           tool == Last(tool_log).tool
           observation == IF outcome.ok THEN outcome.text
                          ELSE StreamErrorObservation(outcome.text)
       IN  IF ~outcome.ok /\ break_if_error
           THEN /\ SendLast(ErrorChunk(StreamErrorObservation(outcome.text)), "tool_error")
                /\ UNCHANGED <<steps, current_iteration_steps, batch>>
           ELSE /\ Send(ObservationChunk(observation, tool, tool_call_id))
                /\ current_iteration_steps' =
                       <<Step(action, observation)>> \o current_iteration_steps
                /\ steps' = <<Step(action, observation)>> \o steps
                /\ batch' = Tail(batch)
                /\ pc' = "batch"
                /\ UNCHANGED <<closed, exit>>
    /\ UNCHANGED <<planner, config, lock, memory, mode, chat_history, accumulated_content,
                   tool_call_id, result, cycle, deltas, minted, history>>

\* executor.rs 424-500: the tool call returns
StreamToolReturn(outcome) ==
    /\ mode = "stream" /\ pc = "tool"
    /\ Return(outcome)
    /\ LET action == Head(batch)
           tool == Last(tool_log).tool
           observation == IF outcome.ok THEN outcome.text
                          ELSE StreamErrorObservation(outcome.text)
       IN  IF ~outcome.ok /\ break_if_error
           THEN /\ SendLast(ErrorChunk(StreamErrorObservation(outcome.text)), "tool_error")
                /\ UNCHANGED <<steps, current_iteration_steps, batch>>
           ELSE /\ Send(ObservationChunk(observation, tool, tool_call_id))
                /\ current_iteration_steps' =
                       Append(current_iteration_steps, Step(action, observation))
                /\ steps' = Append(steps, Step(action, observation))
                /\ batch' = Tail(batch)
                /\ pc' = "batch"
                /\ UNCHANGED <<closed, exit>>
    /\ UNCHANGED <<planner, config, lock, memory, mode, chat_history, accumulated_content,
                   tool_call_id, result, cycle, deltas, minted, history>>

\* executor.rs 502-507: after the batch, the cycle's content goes to Memory
StreamFlushContent ==
    /\ mode = "stream" /\ pc = "batch" /\ batch = <<>>
    /\ accumulated_content # <<>> => Locked
    /\ Unlock
    /\ memory' = (IF accumulated_content # <<>> /\ has_memory
                  THEN Append(memory, AiMessage(accumulated_content))
                  ELSE memory)
    /\ pc' = "flush_steps"
    /\ UNCHANGED <<planner, config, mode, chat_history, steps, locals, batch, channel,
                   result, in_flight, tool_log, cycle, deltas, minted, exit,
                   history>>

StreamFlushStepsAll ==
    /\ mode = "stream" /\ pc = "flush_steps"
    /\ Locked
    /\ Unlock
    /\ memory' = (IF has_memory
                  THEN PersistStepsStream(steps, {}, memory)
                  ELSE memory)
    /\ pc' = "refresh"
    /\ UNCHANGED <<planner, config, mode, chat_history, steps, locals, batch, channel,
                   result, in_flight, tool_log, cycle, deltas, minted, exit,
                   history>>

\* executor.rs 509-555: the cycle's steps go to Memory
StreamFlushSteps ==
    /\ mode = "stream" /\ pc = "flush_steps"
    /\ Locked
    /\ Unlock
    /\ memory' = (IF has_memory
                  THEN PersistStepsStream(current_iteration_steps, {}, memory)
                  ELSE memory)
    /\ pc' = "refresh"
    /\ UNCHANGED <<planner, config, mode, chat_history, steps, locals, batch, channel,
                   result, in_flight, tool_log, cycle, deltas, minted, exit,
                   history>>

\* executor.rs 557: Final(Finish(finish))
StreamFinalFinish(output) ==
    /\ mode = "stream" /\ pc = "plan_stream"
    /\ pc' = "finish"
    /\ Planned("finish", output, <<>>)
    /\ UNCHANGED <<planner, config, lock, memory, mode, chat_history, steps, locals,
                   batch, channel, result, in_flight, tool_log, cycle, deltas,
                   minted, exit>>

\* executor.rs 558-636: the turn is written to Memory under one guard, then
\* the finish chunk is sent and the task ends
StreamFinish ==
    /\ mode = "stream" /\ pc = "finish"
    /\ Locked
    /\ Unlock
    /\ LET output == last_plan.output
           with_user == IF steps = <<>> /\ current_iteration_steps = <<>>
                        THEN Append(memory, HumanMessage(UserInput))
                        ELSE memory
           with_content == IF accumulated_content # <<>>
                           THEN Append(with_user, AiMessage(accumulated_content))
                           ELSE with_user
       IN  memory' = (IF has_memory
                      THEN Append(PersistStepsStream(steps, {}, with_content),
                                  AiMessage(output))
                      ELSE memory)
    /\ SendLast(FinishChunk, "finish")
    /\ UNCHANGED <<planner, config, mode, chat_history, steps, locals, batch, result,
                   in_flight, tool_log, cycle, deltas, minted, history>>

\* executor.rs 665-669: chat_history is refreshed from Memory
StreamRefresh ==
    /\ mode = "stream" /\ pc = "refresh"
    /\ Locked
    /\ Unlock
    /\ chat_history' = (IF has_memory THEN memory ELSE chat_history)
    /\ pc' = "check"
    /\ UNCHANGED <<planner, config, memory, mode, steps, locals, batch, channel, result,
                   in_flight, tool_log, cycle, deltas, minted, exit,
                   history>>

\* executor.rs 671-695: the iteration cap
StreamCheck ==
    /\ mode = "stream" /\ pc = "check"
    /\ IF CapReached(steps, max_iterations)
       THEN SendLast(MaxIterationsChunk, "max_iterations")
       ELSE /\ pc' = "plan"
            /\ UNCHANGED <<channel, exit>>
    /\ UNCHANGED <<planner, config, lock, memory, mode, chat_history, steps, locals, batch,
                   result, in_flight, tool_log, cycle, deltas, minted,
                   history>>

(***************************************************************************)
(* The planner's use of the ToolCallAccumulator, core.rs 107, 133, 267.    *)
(***************************************************************************)
DeltaIds == {JAbsent, JStr(<<>>), JStr(<<"call_1">>), JStr(<<"call_2">>)}
DeltaNames == {JAbsent, JStr(<<"g", "e", "t">>)}
DeltaArguments ==
    {JAbsent, JStr(<<"{", Quote, "a", Quote, ":">>), JStr(<<"3", "}">>), JStr(<<" ">>)}

ToolCallDeltas ==
    {ToolCallDelta(id, name, arguments) :
        id \in DeltaIds, name \in DeltaNames, arguments \in DeltaArguments}

\* core.rs 293-318: accumulate(delta)
Accumulate(delta) ==
    /\ acc_pc = "open"
    /\ fragments < MaxFragments
    /\ acc' = Accumulated(acc, delta)
    /\ produced' = ToActionChunk(Accumulated(acc, delta), ArgsChunk(delta))
    /\ fragments' = fragments + 1
    /\ fed_args' = (IF delta.arguments.t = "string"
                    THEN Append(fed_args, delta.arguments.v)
                    ELSE fed_args)
    /\ first_id' = (IF first_id = JNull /\ delta.id.t = "string" /\ delta.id.v # <<>>
                    THEN delta.id
                    ELSE first_id)
    /\ UNCHANGED <<acc_pc, pad, planning, executor>>

\* acc_pc after one more take_action
Taken(at) == IF at = "open" THEN "taken" ELSE "retaken"

\* a take_action that leaves a fresh accumulator behind
TakeActionResetsAll ==
    /\ acc_pc \in {"open", "taken"}
    /\ produced' = ToActionChunk(acc, acc.args)
    /\ acc' = NewAccumulator
    /\ acc_pc' = Taken(acc_pc)
    /\ UNCHANGED <<fragments, fed_args, first_id, pad, planning, executor>>

\* core.rs 320-323: take_action(), a first and a second time
TakeAction ==
    /\ acc_pc \in {"open", "taken"}
    /\ produced' = ToActionChunk(acc, acc.args)
    /\ acc' = [acc EXCEPT !.args = <<>>]
    /\ acc_pc' = Taken(acc_pc)
    /\ UNCHANGED <<fragments, fed_args, first_id, pad, planning, executor>>

(***************************************************************************)
(* One streaming planner cycle, core.rs 77-150 and 237-272.                *)
(***************************************************************************)
\* an item of the planner's stream
Item(final, kind, action, text) ==
    [final |-> final, kind |-> kind, action |-> action, text |-> text]

DeltaContent(content) == Item(FALSE, "content", NoAction, content)
DeltaAction(action) == Item(FALSE, "action", action, <<>>)
FinalAction(action) == Item(TRUE, "action", action, <<>>)
FinalFinish(output) == Item(TRUE, "finish", NoAction, output)
StreamError == Item(FALSE, "error", NoAction, <<>>)

\* delta.tool_calls: missing (or not an array), or an array whose first
\* element is the given tool-call delta
NoToolCalls == [present |-> FALSE, call |-> ToolCallDelta(JAbsent, JAbsent, JAbsent)]
ToolCalls(call) == [present |-> TRUE, call |-> call]

\* a chunk of the model stream: whether choices[0].delta exists, and the
\* delta's content, its tool_calls and the choice's finish_reason
ModelChunk(delta, content, tool_calls, finish_reason) ==
    [delta |-> delta, content |-> content, tool_calls |-> tool_calls,
     finish_reason |-> finish_reason]

ModelContents == {JNull, JStr(<<>>), JStr(<<"Hi">>)}
ModelToolCalls ==
    {NoToolCalls,
     ToolCalls(ToolCallDelta(JStr(<<"call_1">>), JStr(<<"g", "e", "t">>),
                             JStr(<<"{", Quote, "a", Quote, ":">>))),
     ToolCalls(ToolCallDelta(JAbsent, JAbsent, JStr(<<"3", "}">>)))}
FinishReasons == {JNull, JStr(<<"stop">>), JStr(<<"tool_calls">>), JStr(<<"length">>)}

ModelChunks ==
    {ModelChunk(TRUE, content, tool_calls, finish_reason) :
        content \in ModelContents, tool_calls \in ModelToolCalls,
        finish_reason \in FinishReasons}
    \cup {ModelChunk(FALSE, JNull, NoToolCalls, finish_reason) :
            finish_reason \in {JNull, JStr(<<"stop">>)}}

\* the mutable arguments of process_chunk_delta and the events it has pushed
ChunkLocals(output, a, flag) ==
    [model_output |-> output, acc |-> a, has_tool_calls |-> flag,
     events |-> <<>>, fed |-> FALSE, took |-> FALSE]

\* core.rs 97-109
DeltaEvents(chunk, l) ==
    IF chunk.content.t = "string"
    THEN IF chunk.content.v # <<>>
         THEN [l EXCEPT !.model_output = @ \o chunk.content.v,
                        !.events = Append(@, DeltaContent(chunk.content.v))]
         ELSE l
    ELSE IF chunk.tool_calls.present
         THEN [l EXCEPT !.has_tool_calls = TRUE,
                        !.acc = Accumulated(@, chunk.tool_calls.call),
                        !.events = Append(@, DeltaAction(
                            ToActionChunk(Accumulated(l.acc, chunk.tool_calls.call),
                                          ArgsChunk(chunk.tool_calls.call)))),
                        !.fed = TRUE]
         ELSE l

\* core.rs 125-150: handle_finish_reason
HandleFinishReason(finish_reason, l) ==
    IF finish_reason = <<"tool_calls">>
           \/ (finish_reason = <<"stop">> /\ l.has_tool_calls)
    THEN [l EXCEPT !.events = Append(@, FinalAction(ToActionChunk(l.acc, l.acc.args))),
                   !.acc = [@ EXCEPT !.args = <<>>],
                   !.took = TRUE]
    ELSE [l EXCEPT !.events = Append(@, FinalFinish(l.model_output))]

\* core.rs 111-120
FinishEvents(chunk, l) ==
    IF chunk.finish_reason.t = "string"
    THEN HandleFinishReason(chunk.finish_reason.v, l)
    ELSE l

\* core.rs 77-123: process_chunk_delta
ProcessChunkDelta(chunk, l) ==
    IF chunk.delta THEN FinishEvents(chunk, DeltaEvents(chunk, l)) ELSE l

\* core.rs 252-260: the events are yielded in order up to the first Final
UpToFinal(events) ==
    IF \E i \in 1..Len(events) : events[i].final
    THEN SubSeq(events, 1, CHOOSE i \in 1..Len(events) :
                               /\ events[i].final
                               /\ \A j \in 1..(i - 1) : ~events[j].final)
    ELSE events

\* core.rs 242-261: the model stream delivers a chunk
PlanStreamChunk(chunk) ==
    /\ plan_pc = "streaming"
    /\ Len(chunks) < MaxChunks
    /\ \E l \in {ProcessChunkDelta(chunk, ChunkLocals(model_output, acc, has_tool_calls))} :
          /\ model_output' = l.model_output
          /\ acc' = l.acc
          /\ has_tool_calls' = l.has_tool_calls
          /\ yielded' = yielded \o UpToFinal(l.events)
          /\ plan_pc' = (IF \E i \in 1..Len(l.events) : l.events[i].final
                         THEN "ended" ELSE "streaming")
          /\ acc_pc' = (IF l.took THEN Taken(acc_pc) ELSE acc_pc)
          /\ produced' = (IF l.fed \/ l.took THEN Last(l.events).action ELSE produced)
          /\ fragments' = (IF l.fed THEN fragments + 1 ELSE fragments)
          /\ fed_args' = (IF l.fed /\ chunk.tool_calls.call.arguments.t = "string"
                          THEN Append(fed_args, chunk.tool_calls.call.arguments.v)
                          ELSE fed_args)
    /\ chunks' = Append(chunks, chunk)
    /\ UNCHANGED <<first_id, pad, executor>>

\* core.rs 244-249: the model stream delivers an error
PlanStreamError ==
    /\ plan_pc = "streaming"
    /\ yielded' = Append(yielded, StreamError)
    /\ plan_pc' = "failed"
    /\ UNCHANGED <<model_output, has_tool_calls, chunks, accumulator, pad, executor>>

\* a stream that ends with the model stream, yielding nothing more
PlanStreamEndSilent ==
    /\ plan_pc = "streaming"
    /\ plan_pc' = "ended"
    /\ UNCHANGED <<model_output, has_tool_calls, chunks, yielded, accumulator,
                   pad, executor>>

\* core.rs 264-271: the model stream has ended
PlanStreamEnd ==
    /\ plan_pc = "streaming"
    /\ IF has_tool_calls
       THEN /\ yielded' = Append(yielded, FinalAction(ToActionChunk(acc, acc.args)))
            /\ produced' = ToActionChunk(acc, acc.args)
            /\ acc' = [acc EXCEPT !.args = <<>>]
            /\ acc_pc' = Taken(acc_pc)
       ELSE /\ yielded' = Append(yielded, FinalFinish(model_output))
            /\ UNCHANGED <<acc, acc_pc, produced>>
    /\ plan_pc' = "ended"
    /\ UNCHANGED <<model_output, has_tool_calls, chunks, fragments, fed_args,
                   first_id, pad, executor>>

(***************************************************************************)
(* Specifications.                                                         *)
(***************************************************************************)
Next ==
    \/ MemoryLock
    \/ CallStart
    \/ \E e \in PlanErrors : CallPlanError(e)
    \/ \E actions \in Batches : CallPlanAction(actions)
    \/ \E output \in FinishOutputs : CallPlanFinish(output)
    \/ CallFinish
    \/ CallAction
    \/ \E outcome \in ToolOutcomes : CallToolReturn(outcome)
    \/ CallCheck
    \/ StreamStart
    \/ \E e \in PlanErrors : StreamPlanError(e)
    \/ StreamPlanOpen
    \/ \E content \in ContentDeltas : StreamDeltaContent(content)
    \/ \E action \in PartialActions : StreamDeltaAction(action)
    \/ \E e \in PlanErrors : StreamItemError(e)
    \/ \E actions \in Batches : StreamFinalAction(actions)
    \/ StreamAction
    \/ \E outcome \in ToolOutcomes : StreamToolReturn(outcome)
    \/ StreamFlushContent
    \/ StreamFlushSteps
    \/ \E output \in FinishOutputs : StreamFinalFinish(output)
    \/ StreamFinish
    \/ StreamRefresh
    \/ StreamCheck

Spec == Init /\ [][Next]_vars

\* call() alone on an executor with a Memory, with one more iteration allowed
CallInit == Constructed(0..(MaxIterations + 1), {TRUE})

CallNext ==
    \/ MemoryLock
    \/ CallStart
    \/ \E e \in PlanErrors : CallPlanError(e)
    \/ \E actions \in Batches : CallPlanAction(actions)
    \/ \E output \in FinishOutputs : CallPlanFinish(output)
    \/ CallFinish
    \/ CallAction
    \/ \E outcome \in ToolOutcomes : CallToolReturn(outcome)
    \/ CallCheck

CallSpec == CallInit /\ [][CallNext]_vars

\* actions whose log is not a LogTools document, or whose tools payload is
\* not JSON: a planner other than OpenAIMcpAgent may return them
UnreadableActions ==
    { AgentAction(<<"g", "e", "t">>, <<"{}">>, Log(Absent, Absent, FALSE)),
      AgentAction(<<"g", "e", "t">>, <<"{}">>, Log("call_4", "batch_3", FALSE)) }

UnreadableBatches == {<<action>> : action \in UnreadableActions}

\* call() with a Memory and a planner whose action logs may fail to parse
PersistNext ==
    \/ CallNext
    \/ \E actions \in UnreadableBatches : CallPlanAction(actions)

PersistSpec == CallInit /\ [][PersistNext]_vars

\* stream() and call() with a caller that may drop the stream at any time
CancelNext == ConsumerDrop \/ Next

CancelSpec == Init /\ [][CancelNext]_vars

\* one streaming planner cycle: the chunks of one model stream
PlanInit == Constructed({0}, {FALSE})

PlanNext ==
    \/ \E chunk \in ModelChunks : PlanStreamChunk(chunk)
    \/ PlanStreamError
    \/ PlanStreamEnd

PlanSpec == PlanInit /\ [][PlanNext]_vars

\* a message another stream() invocation on the same Memory adds
OtherMessage == AiMessage(<<"other">>)

IsOther(message) == message.role = "ai" /\ message.content = <<"other">>

OtherWrites(mem) == Cardinality({i \in 1..Len(mem) : IsOther(mem[i])})

\* executor.rs 503-505 and 510, run by another stream() invocation that was
\* given the same Arc<Mutex<Memory>>: it gets the guard while the mutex is
\* free, adds a message and drops the guard
OtherStreamWrites ==
    /\ has_memory
    /\ lock = "free"
    /\ mode = "stream" /\ ~closed
    /\ OtherWrites(memory) < MaxOtherWrites
    /\ memory' = Append(memory, OtherMessage)
    /\ UNCHANGED <<planner, config, lock, mode, pc, chat_history, steps, locals, batch,
                   channel, result, in_flight, tool_log, cycle, deltas, minted,
                   exit, history>>

\* stream() with a Memory that another stream() invocation writes to
SharedInit == Constructed(1..MaxIterations, {TRUE})

SharedNext ==
    \/ OtherStreamWrites
    \/ MemoryLock
    \/ StreamStart
    \/ \E e \in PlanErrors : StreamPlanError(e)
    \/ StreamPlanOpen
    \/ \E content \in ContentDeltas : StreamDeltaContent(content)
    \/ \E action \in PartialActions : StreamDeltaAction(action)
    \/ \E e \in PlanErrors : StreamItemError(e)
    \/ \E actions \in Batches : StreamFinalAction(actions)
    \/ StreamAction
    \/ \E outcome \in ToolOutcomes : StreamToolReturn(outcome)
    \/ StreamFlushContent
    \/ StreamFlushSteps
    \/ \E output \in FinishOutputs : StreamFinalFinish(output)
    \/ StreamFinish
    \/ StreamRefresh
    \/ StreamCheck

SharedSpec == SharedInit /\ [][SharedNext]_vars

\* one ToolCallAccumulator fed with deltas and then taken
AccInit == Constructed({0}, {FALSE})

AccNext ==
    \/ \E delta \in ToolCallDeltas : Accumulate(delta)
    \/ TakeAction

AccSpec == AccInit /\ [][AccNext]_vars

\* The producer task and call() always make progress: every planner call and
\* every tool call returns
FairSpec == Spec /\ WF_vars(Next)

(***************************************************************************)
(* Properties.                                                             *)
(***************************************************************************)
Returned == (1..Len(tool_log)) \ in_flight

FailedCalls == {i \in Returned : ~tool_log[i].outcome.ok}

\* C1: whenever the delivery channel of a stream() closes, the last chunk sent
\* on it has a non-null finish_reason, and the producer ends (on Finish, at
\* the iteration cap, on every fatal condition) only by closing the channel
\* in that way; nothing is sent on a closed channel.
C1_TerminalChunkOnClose ==
    /\ closed => /\ mode = "stream"
                 /\ tx # <<>>
                 /\ Last(tx).finish_reason # Null
    /\ (mode = "stream" /\ (pc = "done" \/ exit # "none")) => closed
    /\ \A i \in 1..(Len(tx) - 1) : tx[i].finish_reason \notin {"stop", "length"}

C1_Witness ==
    /\ closed
    /\ exit = "tool_error"
    /\ Len(tx) >= 4

\* C3: the first chunk of every stream() has delta.role "assistant",
\* delta.content null and finish_reason null, and it is on the channel before
\* the planner is asked and before any sub-event or tool result is forwarded.
C3_InitialChunkFirst ==
    mode = "stream" =>
        /\ tx # <<>>
        /\ tx[1].delta.role = "assistant"
        /\ tx[1].delta.content = JNull
        /\ tx[1].finish_reason = Null
        /\ \A i \in 2..Len(tx) : tx[i].delta.role = Absent
        /\ (cycle = 0 => Len(tx) = 1)

C3_Witness ==
    /\ mode = "stream"
    /\ Len(tx) >= 3
    /\ \E i \in 2..Len(tx) : tx[i].delta.parsed # JAbsent

\* C2: with an iteration cap configured, call() eventually returns and the
\* producer task of stream() eventually emits a terminal chunk and ends,
\* whatever the planner decides and whatever the tools return.
C2_LoopTerminates == <>(pc = "done")

AllSucceeded == \A i \in 1..Len(tool_log) : tool_log[i].outcome.ok

\* C4 (as stated): with max_iterations = N, a planner that always returns
\* Action and tools that always succeed, call() returns "Max iterations
\* reached" after exactly N recorded steps and N tool invocations.
C4_ExactlyNSteps ==
    (mode = "call" /\ exit = "max_iterations" /\ AllSucceeded) =>
        /\ result = Ok(MaxIterationsReached)
        /\ Len(steps) = max_iterations
        /\ Len(tool_log) = max_iterations

\* C4 (amended): with max_iterations = N >= 1, a planner that always returns
\* an Action batch of exactly one action and tools that always succeed,
\* call() returns "Max iterations reached" after exactly N recorded steps and
\* N tool invocations; with batches of any size it returns it with at least N
\* steps, having stopped at the first batch end at which N was reached.
C4_ExactlyNStepsSingleActionBatches ==
    (mode = "call" /\ exit = "max_iterations") =>
        /\ result = Ok(MaxIterationsReached)
        /\ Len(steps) >= max_iterations
        /\ Len(tool_log) = Len(steps)
        /\ (max_iterations >= 1 /\ batch_sizes = {1} /\ AllSucceeded) =>
               Len(steps) = max_iterations

C4_Witness ==
    /\ mode = "call"
    /\ exit = "max_iterations"
    /\ max_iterations = 2
    /\ batch_sizes = {1}
    /\ AllSucceeded
    /\ Len(steps) = 2

\* C5: in call(), once an Action batch has been processed and the number of
\* recorded steps has reached max_iterations, call() returns the fixed output
\* "Max iterations reached" as a successful result, without asking the
\* planner again, without a further tool call and without writing to Memory.
C5_CapReturnsSentinel ==
    [][(mode = "call" /\ pc = "batch" /\ batch = <<>>
            /\ Len(steps) >= max_iterations) =>
           /\ pc' = "done"
           /\ result' = Ok(MaxIterationsReached)
           /\ memory' = memory
           /\ last_plan' = last_plan
           /\ cycle' = cycle
           /\ tool_log' = tool_log]_vars

C5_Witness ==
    /\ mode = "call"
    /\ has_memory
    /\ pc = "done"
    /\ result = Ok(MaxIterationsReached)
    /\ last_plan.kind = "action"
    /\ Len(steps) >= 1

\* C6: if the planner's decision on the first cycle of call() is
\* Finish(output), call() returns exactly that output and no tool is invoked.
C6_FinishOnFirstCycle ==
    (mode = "call" /\ cycle = 1 /\ last_plan.kind = "finish") =>
        /\ pc \in {"finish", "done"}
        /\ pc = "done" => result = Ok(last_plan.output)
        /\ tool_log = <<>>
        /\ in_flight = {}
        /\ steps = <<>>

C6_Witness ==
    /\ mode = "call"
    /\ cycle = 1
    /\ last_plan = [kind |-> "finish", output |-> <<"done">>]
    /\ pc = "done"

\* C7: with break_if_error = true the first failing tool invocation makes
\* call() return a fatal error at once: the failing attempt is the last tool
\* invocation of the call (no retry, no later action of the batch), and the
\* call has ended with that error (the planner is not asked again).
C7_BreakOnFirstFailure ==
    (mode = "call" /\ break_if_error) =>
        \A i \in FailedCalls :
            /\ i = Len(tool_log)
            /\ Cardinality(FailedCalls) = 1
            /\ pc = "done"
            /\ exit = "tool_error"
            /\ result = Err("ToolError", tool_log[i].outcome.text)
            /\ last_plan.kind = "action"
            /\ Len(steps) = i - 1

C7_Witness ==
    /\ mode = "call"
    /\ break_if_error
    /\ FailedCalls # {}
    /\ Len(batch) = 2
    /\ pc = "done"

\* C8: with break_if_error = false a failing tool invocation never aborts
\* call(): every returned invocation, failed ones included, is a recorded
\* step, the observation of a failed one contains the tool's error message,
\* and call() never ends with a tool error.
C8_ContinueOnFailure ==
    (mode = "call" /\ ~break_if_error) =>
        /\ exit # "tool_error"
        /\ result.kind = "ToolError" => exit = "tool_not_found"
        /\ \A i \in Returned :
               /\ i <= Len(steps)
               /\ steps[i].action = tool_log[i].action
               /\ tool_log[i].outcome.ok => steps[i].observation = tool_log[i].outcome.text
               /\ ~tool_log[i].outcome.ok =>
                      /\ Contains(steps[i].observation, tool_log[i].outcome.text)
                      /\ steps[i].observation # tool_log[i].outcome.text
        /\ (pc = "done" /\ FailedCalls # {}) =>
               exit \in {"finish", "max_iterations", "planning_error",
                         "tool_not_found", "serialization_error"}

C8_Witness ==
    /\ mode = "call"
    /\ ~break_if_error
    /\ FailedCalls # {}
    /\ Len(steps) = Len(tool_log)
    /\ exit = "finish"
    /\ last_plan.kind = "finish"

Unresolved(action) == ResolveTool(action) = NoTool

\* C9: an action whose normalized tool name matches no registered tool is
\* fatal for both values of break_if_error: call() returns an error, stream()
\* emits a terminal chunk with finish_reason "stop" embedding the message and
\* ends; no tool is invoked and no step is recorded for such an action.
C9_ToolNotFoundState ==
    /\ \A i \in 1..Len(tool_log) : ~Unresolved(tool_log[i].action)
    /\ \A i \in 1..Len(steps) : ~Unresolved(steps[i].action)
    /\ \A i \in 1..Len(planned) :
           Unresolved(planned[i]) => (Len(tool_log) < i /\ Len(steps) < i)
    /\ exit = "tool_not_found" =>
           /\ pc = "done"
           /\ Unresolved(Head(batch))
           /\ mode = "call" => result = Err("ToolError", ToolNotFoundMessage(Head(batch)))
           /\ mode = "stream" =>
                  /\ closed
                  /\ Last(tx).finish_reason = "stop"
                  /\ Last(tx).delta.content = JStr(ToolNotFoundMessage(Head(batch)))
                  /\ Contains(Last(tx).delta.content.v, Head(batch).tool)

C9_ToolNotFoundStep ==
    (pc = "batch" /\ batch # <<>> /\ Unresolved(Head(batch))) =>
        /\ pc' = "done"
        /\ exit' = "tool_not_found"
        /\ tool_log' = tool_log
        /\ steps' = steps

C9_ToolNotFoundFatal == []C9_ToolNotFoundState /\ [][C9_ToolNotFoundStep]_vars

C9_Witness ==
    /\ exit = "tool_not_found"
    /\ mode = "stream"
    /\ ~break_if_error
    /\ Len(steps) >= 1

\* C10: within one call() or stream() at most one tool invocation is in
\* flight; an action is dispatched only after every earlier one has returned
\* and been recorded; tools are invoked, and steps are recorded, in exactly
\* the order in which the planner returned the actions, cycle after cycle.
C10_SequentialTools ==
    /\ Cardinality(in_flight) <= 1
    /\ in_flight \subseteq {Len(tool_log)}
    /\ Len(steps) <= Len(tool_log)
    /\ Len(tool_log) <= Len(steps) + 1
    /\ in_flight # {} => (pc = "tool" /\ Len(steps) = Len(tool_log) - 1)
    /\ Len(tool_log) <= Len(planned)
    /\ \A i \in 1..Len(tool_log) : tool_log[i].action = planned[i]
    /\ \A i \in 1..Len(steps) :
           /\ steps[i].action = planned[i]
           /\ Contains(steps[i].observation, tool_log[i].outcome.text)

C10_Witness ==
    /\ in_flight # {}
    /\ Len(tool_log) = 3
    /\ tool_log[1].action # tool_log[2].action
    /\ cycle >= 2

\* the positions of tx holding an observation chunk
ObservationChunks == {i \in 1..Len(tx) : tx[i].delta.parsed # JAbsent}

\* the rank of the observation chunk at position i among the observation chunks
ObservationRank(i) == Cardinality({j \in ObservationChunks : j <= i})

\* C11: for every action of a terminal Action batch of stream() the tool-call
\* chunk, carrying the resolved id, comes first and the observation chunk
\* (content null, parsed, tool_name, tool_call_id equal to that id) comes
\* directly after it; the pairs follow the order of the steps and nothing
\* comes between the two chunks of a pair.
C11_ToolCallThenObservation ==
    mode = "stream" =>
        /\ Cardinality(ObservationChunks) = Len(steps)
        /\ pc = "tool" =>
               Last(tx).delta.tool_calls = ToolCallJson(tool_call_id, Last(tool_log).action)
        /\ \A i \in ObservationChunks :
               /\ i > 1
               /\ LET step == steps[ObservationRank(i)]
                      announced == tx[i - 1].delta.tool_calls
                  IN  /\ announced = ToolCallJson(step.action.log.tool_id, step.action)
                      /\ tx[i].delta.tool_call_id = announced.id
                      /\ tx[i].delta.content = JNull
                      /\ tx[i].delta.parsed = ParseObservation(step.observation)
                      /\ tx[i].delta.tool_name = Tools[ResolveTool(step.action)]

C11_Witness ==
    /\ mode = "stream"
    /\ Cardinality(ObservationChunks) = 2
    /\ \E i, j \in ObservationChunks :
           /\ i < j
           /\ tx[i].delta.tool_call_id # tx[j].delta.tool_call_id
           /\ tx[i].delta.parsed.t # tx[j].delta.parsed.t

\* C12: every chunk sent by stream() has finish_reason in {null, "stop",
\* "length"}, and the value is non-null only on the last chunk of the stream.
C12_FinishReasonDomain ==
    \A i \in 1..Len(tx) :
        /\ tx[i].finish_reason \in {Null, "stop", "length"}
        /\ tx[i].finish_reason # Null => i = Len(tx)

C13_CapState ==
    mode = "stream" =>
        /\ (pc \in {"plan", "plan_stream"} /\ batch_sizes # {}) =>
               Len(steps) < max_iterations
        /\ exit = "max_iterations" =>
               /\ pc = "done" /\ closed /\ in_flight = {}
               /\ last_plan.kind = "action"
               /\ Len(steps) >= max_iterations
               /\ Last(tx).finish_reason = "length"
               /\ Last(tx).delta.content = JStr(<<"Maximum iterations reached.">>)
               /\ Cardinality({i \in 1..Len(tx) :
                                   tx[i].finish_reason \in {"stop", "length"}}) = 1

C13_CapStep ==
    /\ (mode = "stream" /\ pc = "check" /\ Len(steps) >= max_iterations) =>
           /\ Len(tx') = Len(tx) + 1
           /\ Last(tx').finish_reason = "length"
           /\ closed' /\ pc' = "done" /\ exit' = "max_iterations"
           /\ cycle' = cycle /\ tool_log' = tool_log
    /\ (mode = "stream" /\ exit = "max_iterations") =>
           (cycle' = cycle /\ tool_log' = tool_log /\ tx' = tx)

\* C13: in stream(), after a non-finishing batch and before a new planner
\* cycle, once the step count has reached max_iterations the producer sends
\* one terminal chunk with the advisory content and finish_reason "length"
\* and ends; a new planner cycle starts only below the cap, and after the
\* check has succeeded no planner call and no tool invocation happens.
C13_StreamCap == []C13_CapState /\ [][C13_CapStep]_vars

C13_Witness ==
    /\ mode = "stream"
    /\ exit = "max_iterations"
    /\ Len(steps) >= 2
    /\ Last(tx).finish_reason = "length"

C14_FailureState ==
    mode = "stream" =>
        \A i \in FailedCalls :
            LET err == tool_log[i].outcome.text
            IN  IF break_if_error
                THEN /\ i = Len(tool_log)
                     /\ Cardinality(FailedCalls) = 1
                     /\ pc = "done" /\ closed /\ exit = "tool_error"
                     /\ Last(tx).finish_reason = "stop"
                     /\ Last(tx).delta.content.t = "string"
                     /\ Contains(Last(tx).delta.content.v, err)
                     /\ Len(steps) = i - 1
                     /\ last_plan.kind = "action"
                ELSE /\ exit # "tool_error"
                     /\ i <= Len(steps)
                     /\ steps[i].action = tool_log[i].action
                     /\ Contains(steps[i].observation, err)
                     /\ \E k \in ObservationChunks :
                            /\ ObservationRank(k) = i
                            /\ tx[k].delta.parsed = JStr(steps[i].observation)
                            /\ tx[k].finish_reason = Null

C14_FailureStep ==
    (mode = "stream" /\ pc = "tool" /\ ~break_if_error) =>
        /\ pc' = "batch"
        /\ batch' = Tail(batch)
        /\ Len(steps') = Len(steps) + 1
        /\ closed' = closed

\* C14: in stream() a failing tool invocation follows the policy of call():
\* with break_if_error = true it is the last invocation, the producer sends a
\* terminal chunk with finish_reason "stop" whose content embeds the error
\* text and ends (no later tool, no later planner cycle); with break_if_error
\* = false the error text becomes the step's observation, an observation
\* chunk is sent for it and the batch goes on with its remaining actions.
C14_StreamToolFailure == []C14_FailureState /\ [][C14_FailureStep]_vars

C14_Witness ==
    /\ mode = "stream"
    /\ ~break_if_error
    /\ 1 \in FailedCalls
    /\ Len(tool_log) >= 2
    /\ batch_sizes = {2}
    /\ cycle = 1

C15_PlannerFailureState ==
    last_plan.kind = "error" =>
        /\ pc = "done"
        /\ in_flight = {}
        /\ mode = "call" =>
               /\ exit = "planning_error"
               /\ result.status = "err"
               /\ result.kind = "AgentError"
               /\ Contains(result.text, last_plan.output)
        /\ mode = "stream" =>
               /\ exit \in {"planning_error", "stream_error"}
               /\ closed
               /\ Last(tx).finish_reason = "stop"
               /\ Last(tx).delta.content.t = "string"
               /\ Contains(Last(tx).delta.content.v, last_plan.output)
               /\ \A i \in 1..(Len(tx) - 1) : tx[i].finish_reason # "stop"

C15_PlannerFailureStep ==
    /\ last_plan.kind = "error" =>
           (tool_log' = tool_log /\ cycle' = cycle /\ tx' = tx /\ result' = result)
    /\ last_plan'.kind = "error" => tool_log' = tool_log

\* C15: a planner failure in any cycle is fatal. call() returns one error
\* carrying the planner's message; stream() sends a content chunk embedding
\* the message with finish_reason "stop" and ends, both when plan_stream
\* cannot be opened and when the planner stream yields an error item; in both
\* modes no tool is invoked and no planner cycle is started afterwards.
C15_PlannerFailureFatal ==
    []C15_PlannerFailureState /\ [][C15_PlannerFailureStep]_vars

C15_Witness ==
    /\ mode = "stream"
    /\ exit = "stream_error"
    /\ last_plan.kind = "error"
    /\ Len(steps) >= 1
    /\ deltas >= 1

\* step k is the first step of the turn with its serialized tool-call payload
FirstWithPayload(k) ==
    \A j \in 1..(k - 1) : steps[j].action.log.tools # steps[k].action.log.tools

\* where the tool-result message of step k lies when the turn is written
\* once, after the earlier messages and the user message
ToolMessageIndex(k) ==
    Len(initial_memory) + 1 + k + Cardinality({j \in 1..k : FirstWithPayload(j)})

\* C16: when call() receives Finish(output) with a Memory, Memory gains
\* exactly: one user message with the input; for each step in order an
\* assistant tool-call message (only for the first step with that payload)
\* followed by the step's tool-result message; one assistant message with
\* output; and call() returns output.
C16_CallFinishPersistsTurn ==
    (mode = "call" /\ has_memory /\ exit = "finish") =>
        /\ result = Ok(last_plan.output)
        /\ Len(memory) = ToolMessageIndex(Len(steps)) + 1
        /\ SubSeq(memory, 1, Len(initial_memory)) = initial_memory
        /\ memory[Len(initial_memory) + 1] = HumanMessage(UserInput)
        /\ \A k \in 1..Len(steps) :
               /\ memory[ToolMessageIndex(k)] =
                      ToolMessage(steps[k].observation, steps[k].action.log.tool_id)
               /\ FirstWithPayload(k) =>
                      memory[ToolMessageIndex(k) - 1] =
                          AiToolCallsMessage(steps[k].action.log.tools)
        /\ memory[Len(memory)] = AiMessage(last_plan.output)

C16_Witness ==
    /\ mode = "call" /\ has_memory /\ exit = "finish"
    /\ Len(steps) = 2
    /\ ~FirstWithPayload(2)
    /\ Len(memory) = Len(initial_memory) + 5

\* the number of user messages in a list of messages
UserMessages(messages) ==
    Cardinality({i \in 1..Len(messages) : messages[i].role = "human"})

\* C17: after a call() or stream() that runs to its end (Finish or the
\* iteration cap) with a Memory, Memory holds exactly one more user message
\* than before the invocation.
C17_OneUserMessagePerTurn ==
    (has_memory /\ pc = "done" /\ exit \in {"finish", "max_iterations"}) =>
        UserMessages(memory) = UserMessages(initial_memory) + 1

\* the ids of the tool calls listed in a serialized tool-call payload: the
\* payload of an action's log is the planner output that holds the call
AnnouncedIds(payload) ==
    {a.log.tool_id : a \in {b \in ActionPool : b.log.tools = payload}}

\* C18: each tool-result message of Memory is preceded, among the messages
\* written by the same invocation, by an assistant message whose tool-call
\* batch lists that tool call; Memory is only ever appended to, so this
\* carries over to any sequence of invocations.
C18_ToolResultAfterAnnouncement ==
    /\ Len(memory) >= Len(initial_memory)
    /\ SubSeq(memory, 1, Len(initial_memory)) = initial_memory
    /\ \A i \in (Len(initial_memory) + 1)..Len(memory) :
           memory[i].role = "tool" =>
               \E j \in (Len(initial_memory) + 1)..(i - 1) :
                   /\ memory[j].role = "ai"
                   /\ memory[i].tool_call_id \in AnnouncedIds(memory[j].tool_calls)

C18_Witness ==
    /\ mode = "stream"
    /\ \E i \in 2..Len(memory) :
           /\ memory[i].role = "tool"
           /\ memory[i - 1].role = "tool"
           /\ memory[i].tool_call_id # memory[i - 1].tool_call_id

\* the messages call() appends for a turn with the given steps and output
\* (executor.rs 127-149)
CallTurn(step_list, output) ==
    Append(PersistStepsCall(step_list, {}, <<HumanMessage(UserInput)>>).memory,
           AiMessage(output))

\* C19: for the same input, planner decisions ending in Finish and tool
\* results, stream() appends to Memory the messages call() appends, in the
\* same order. The planner decisions of call() have no sub-events and the
\* observation of a failed tool differs between the two, so the comparison is
\* made for streams without sub-events whose tools all succeeded.
C19_StreamPersistsAsCall ==
    (mode = "stream" /\ has_memory /\ exit = "finish"
        /\ deltas = 0 /\ AllSucceeded) =>
        memory = initial_memory \o CallTurn(steps, last_plan.output)

C20_LockState == in_flight # {} => lock = "free"

C20_LockStep ==
    /\ (in_flight # {} \/ in_flight' # {}) =>
           (memory' = memory /\ lock' = "free")
    /\ memory' # memory =>
           (lock = "held" /\ lock' = "free" /\ in_flight = {} /\ in_flight' = {})
    /\ lock' = "held" => (lock = "free" /\ UNCHANGED <<memory, chat_history, pc>>)

\* C20: the Memory lock is never held by the invocation while one of its
\* tool invocations is in flight, and Memory is not changed from the dispatch
\* of a tool to its return; the guard is taken by itself and dropped by the
\* very step that reads the snapshot or writes the turn or cycle, so the lock
\* is free for another turn whenever a tool call is pending.
C20_NoLockAcrossToolCall == []C20_LockState /\ [][C20_LockStep]_vars

C20_Witness ==
    /\ has_memory
    /\ in_flight # {}
    /\ lock = "free"
    /\ Len(memory) > Len(initial_memory)

\* C21: once a send of the producer task has failed because the consumer side
\* of the channel was dropped, the task ends: no planner cycle and no tool
\* invocation is started after the failed send.
C21_ProducerStopsAfterFailedSend ==
    [][rx = "send_failed" => (cycle' = cycle /\ tool_log' = tool_log)]_vars

\* the number of tool-result messages in a list of messages
ToolResultMessages(messages) ==
    Cardinality({i \in 1..Len(messages) : messages[i].role = "tool"})

\* C29: over a stream() that ends in Finish with a Memory, Memory receives
\* exactly one tool-result message per executed step.
C29_OneToolResultPerStep ==
    (mode = "stream" /\ has_memory /\ exit = "finish") =>
        ToolResultMessages(memory) = ToolResultMessages(initial_memory) + Len(steps)

\* the tool-result messages among the messages after position n
ToolResultsAfter(messages, n) ==
    SelectSeq(SubSeq(messages, n + 1, Len(messages)), LAMBDA m : m.role = "tool")

\* the tool-result messages of a list of steps, in step order
ToolResultsOf(step_list) ==
    [k \in 1..Len(step_list) |->
        ToolMessage(step_list[k].observation, step_list[k].action.log.tool_id)]

C30_CycleState ==
    mode = "stream" =>
        /\ pc = "plan_stream" => current_iteration_steps = <<>>
        /\ (has_memory /\ pc \in {"plan", "plan_stream"}) => chat_history = memory
        /\ (has_memory /\ pc \in {"refresh", "check"}) =>
               \E n \in 0..Len(memory) :
                   /\ ToolResultsAfter(memory, n) = ToolResultsOf(current_iteration_steps)
                   /\ \A i \in (n + 1)..Len(memory) :
                          \/ memory[i].role = "tool"
                          \/ \E k \in 1..Len(current_iteration_steps) :
                                 memory[i] = AiToolCallsMessage(
                                     current_iteration_steps[k].action.log.tools)
                   /\ accumulated_content # <<>> =>
                          (n >= 1 /\ memory[n] = AiMessage(accumulated_content))

C30_CycleStep ==
    mode = "stream" =>
        /\ (pc = "plan" /\ pc' = "plan_stream") =>
               (accumulated_content' = <<>> /\ current_iteration_steps' = <<>>)
        /\ cycle' # cycle => (pc = "plan" /\ memory' = memory)
        /\ (pc = "batch" /\ pc' = "flush_steps") =>
               memory' = (IF has_memory /\ accumulated_content # <<>>
                          THEN Append(memory, AiMessage(accumulated_content))
                          ELSE memory)
        /\ (pc = "flush_steps" /\ pc' = "refresh" /\ has_memory) =>
               /\ Len(memory') >= Len(memory)
               /\ SubSeq(memory', 1, Len(memory)) = memory
               /\ ToolResultsAfter(memory', Len(memory)) =
                      ToolResultsOf(current_iteration_steps)
        /\ (pc = "refresh" /\ pc' = "check" /\ has_memory) =>
               (chat_history' = memory /\ memory' = memory)

\* C30: in stream() the cycle-local content and step list are empty when a
\* cycle starts; after a non-finishing batch the cycle's content (only if
\* non-empty) and exactly that cycle's tool-call/result pairs are appended to
\* Memory, chat_history is then read from Memory, and only after that does the
\* next cycle start, with chat_history equal to Memory as the flush left it.
C30_CycleFlush == []C30_CycleState /\ [][C30_CycleStep]_vars

C30_Witness ==
    /\ mode = "stream" /\ has_memory
    /\ pc = "plan_stream"
    /\ Len(steps) >= 1
    /\ accumulated_content # <<>>
    /\ Len(chat_history) >= Len(initial_memory) + 2

(***************************************************************************)
(* ToolCallAccumulator: what take_action returns.                          *)
(***************************************************************************)
\* String concatenation of the fragments, in order
RECURSIVE Concat(_)
Concat(fragment_list) ==
    IF fragment_list = <<>> THEN <<>>
    ELSE Head(fragment_list) \o Concat(Tail(fragment_list))

\* "{}"
EmptyObject == <<"{", "}">>

\* C22 as stated: after fragments f1..fn were fed with no take_action in
\* between, take_action returns an action whose tool_input is f1 + ... + fn and
\* whose tool is the recorded name.
C22_TakeReturnsConcatenation ==
    (acc_pc = "taken" /\ fed_args # <<>>) =>
        /\ produced.tool_input = Concat(fed_args)
        /\ produced.tool = UnwrapOrDefault(acc.name)

\* C22, amended: the tool_input of the action take_action returns is the
\* in-order concatenation of the fragments fed when that concatenation has a
\* character that is not whitespace, and "{}" otherwise; its tool is the
\* recorded name.
C22_TakeReturnsConcatenationUnlessBlank ==
    acc_pc = "taken" =>
        /\ produced.tool_input =
               (IF Trim(Concat(fed_args)) = <<>> THEN EmptyObject
                ELSE Concat(fed_args))
        /\ produced.tool = UnwrapOrDefault(acc.name)

C22_Witness ==
    /\ acc_pc = "taken"
    /\ Len(fed_args) = 2
    /\ acc.name = JStr(<<"g", "e", "t">>)
    /\ produced.tool = <<"g", "e", "t">>
    /\ produced.tool_input = <<"{", Quote, "a", Quote, ":", "3", "}">>

(***************************************************************************)
(* Reading an action log back (intermediate.rs 15-23).  The documents are  *)
(* read in the layout ToolsOutput and LogStr write them in; serde accepts  *)
(* the keys in any order, which no text of the model exercises.            *)
(***************************************************************************)
NoFields == [ok |-> FALSE, values |-> <<>>, rest |-> <<>>]

\* the values read so far, followed by those read after them
FieldsJoin(value, more) ==
    IF more.ok
    THEN [ok |-> TRUE, values |-> <<value>> \o more.values, rest |-> more.rest]
    ELSE NoFields

RECURSIVE ReadFields(_, _)
\* a value was read: the remaining values are read from the text after it
ReadFieldsAfter(read, layout) ==
    IF read.ok THEN FieldsJoin(read.value, ReadFields(read.rest, layout))
    ELSE NoFields

\* reads the values of a document: each element of the layout is the
\* punctuation and key that precedes one value
ReadFields(text, layout) ==
    IF layout = <<>> THEN [ok |-> TRUE, values |-> <<>>, rest |-> text]
    ELSE IF ~StartsWith(text, Head(layout)) THEN NoFields
    ELSE ReadFieldsAfter(ReadValue(After(text, Head(layout))), Tail(layout))

\* {"tool_id":_,"tools":_}
LogToolsLayout == << <<"{">> \o Key("tool_id"), <<",">> \o Key("tools") >>

\* [{"id":_,"type":_,"function":{"name":_,"arguments":_}}]
ToolsLayout ==
    << <<"[", "{">> \o Key("id"), <<",">> \o Key("type"),
       <<",">> \o Key("function") \o <<"{">> \o Key("name"),
       <<",">> \o Key("arguments") >>

AllStrings(values) == \A i \in 1..Len(values) : values[i].t = "string"

NoLogTools == [ok |-> FALSE, tool_id |-> <<>>, tools |-> <<>>]

\* LogTools { tool_id: String, tools: String }
LogToolsOf(fields) ==
    IF fields.ok /\ fields.rest = <<"}">> /\ AllStrings(fields.values)
    THEN [ok |-> TRUE, tool_id |-> fields.values[1].v,
          tools |-> fields.values[2].v]
    ELSE NoLogTools

\* intermediate.rs 15-18: serde_json::from_str::<LogTools>(&action.log)
ParseLogTools(text) == LogToolsOf(ReadFields(text, LogToolsLayout))

NoTools == [ok |-> FALSE, id |-> JNull, type |-> JNull, name |-> JNull,
            arguments |-> JNull]

ToolsValueOf(fields) ==
    IF fields.ok /\ fields.rest = <<"}", "}", "]">>
    THEN [ok |-> TRUE, id |-> fields.values[1], type |-> fields.values[2],
          name |-> fields.values[3], arguments |-> fields.values[4]]
    ELSE NoTools

\* the tool-call payload as a JSON value (serde_json::from_str::<Value>): an
\* array of one object whose id, type, function.name and function.arguments
\* are each a string or null
ReadTools(text) == ToolsValueOf(ReadFields(text, ToolsLayout))

\* the tool-call payload stored in a log, as a JSON value
PayloadOf(log_tools) ==
    IF log_tools.ok THEN ReadTools(log_tools.tools) ELSE NoTools

Payload(log) == PayloadOf(ParseLogTools(log))

\* the buffer take_action was called on holds the fragments fed
BufferAtTake == Concat(fed_args)

\* C23: take_action on an accumulator whose argument buffer is empty or
\* whitespace-only (zero fragments included) returns an action whose tool_input
\* is "{}", and the tool-call payload stored in its log carries the same "{}"
\* arguments.
C23_BlankBufferGivesEmptyObject ==
    (acc_pc = "taken" /\ Trim(BufferAtTake) = <<>>) =>
        /\ produced.tool_input = EmptyObject
        /\ Payload(produced.log).ok
        /\ Payload(produced.log).arguments = JStr(EmptyObject)

C23_Witness ==
    /\ acc_pc = "taken"
    /\ fed_args = << <<" ">>, <<" ">> >>
    /\ produced.tool_input = EmptyObject
    /\ Payload(produced.log).arguments = JStr(EmptyObject)

\* C24: the tool-call id is recorded on its first sighting and never
\* overwritten: the accumulator holds the first non-empty id it was fed.
C24_IdNeverOverwritten == acc.id = first_id

NoFunctionCall == [ok |-> FALSE, id |-> <<>>, name |-> <<>>, arguments |-> <<>>]

\* Vec<FunctionCallResponse>: id, type, function.name and function.arguments are
\* of type String (core.rs 170-176 moves tool.id into LogTools.tool_id and
\* function.name into AgentAction.tool), so a null is a type error
FunctionCallOf(value) ==
    IF value.ok /\ value.id.t = "string" /\ value.type.t = "string"
       /\ value.name.t = "string" /\ value.arguments.t = "string"
    THEN [ok |-> TRUE, id |-> value.id.v, name |-> value.name.v,
          arguments |-> value.arguments.v]
    ELSE NoFunctionCall

\* intermediate.rs 20-23: serde_json::from_str::<Vec<FunctionCallResponse>>
ParseTools(text) == FunctionCallOf(ReadTools(text))

NoParsedLog == [ok |-> FALSE, tool_id |-> <<>>, call |-> NoFunctionCall]

ParsedCall(tool_id, call) ==
    IF call.ok THEN [ok |-> TRUE, tool_id |-> tool_id, call |-> call]
    ELSE NoParsedLog

ParsedLogTools(log_tools) ==
    IF log_tools.ok
    THEN ParsedCall(log_tools.tool_id, ParseTools(log_tools.tools))
    ELSE NoParsedLog

\* intermediate.rs 15-23: what append_to_conversation reads from a log
ParsedLog(log) == ParsedLogTools(ParseLogTools(log))

\* what was read is the recorded id and a payload with that id, the action's
\* tool and the action's tool_input
Recovered(parsed, action, a) ==
    /\ parsed.ok
    /\ parsed.tool_id = UnwrapOrDefault(a.id)
    /\ parsed.call.id = parsed.tool_id
    /\ parsed.call.name = action.tool
    /\ parsed.call.arguments = action.tool_input

RoundTrip(action, a) == Recovered(ParsedLog(action.log), action, a)

\* C25: re-parsing the log of any action the accumulator produced recovers the
\* tool-call id and the tool-call payload (id, function name and arguments
\* equal to the action's tool and tool_input).
C25_LogRoundTrip == produced # NoAction => RoundTrip(produced, acc)

(***************************************************************************)
(* The scratchpad: construct_scratchpad, core.rs 37-75, and                *)
(* append_to_conversation, intermediate.rs 11-32.                          *)
(***************************************************************************)
MAX_STEPS == 5
SUMMARY_THRESHOLD == 10

\* Message::new_system_message
SystemMessage(text) == Message("system", text, Absent, Absent)

\* core.rs 64-75: the steps are counted, never read
create_summary_message(old_steps) ==
    SystemMessage(<<"Previous ", ToString(Len(old_steps)),
                    " steps summary: [Summarized execution history with ",
                    ToString(Len(old_steps)), " actions completed]">>)

\* intermediate.rs 25-27: json!(tools), the calls parsed from the log
ToolCallsValue(parsed) == <<parsed.call>>

\* intermediate.rs 25-28: the two pushes, the first only when thoughts is empty
Pushed(thoughts, observation, parsed) ==
    Append(IF thoughts = <<>>
           THEN <<AiToolCallsMessage(ToolCallsValue(parsed))>>
           ELSE thoughts,
           ToolMessage(observation, parsed.tool_id))

\* intermediate.rs 15-31: Err when the log or its payload did not parse
AppendParsed(thoughts, observation, parsed) ==
    IF parsed.ok
    THEN [ok |-> TRUE, thoughts |-> Pushed(thoughts, observation, parsed)]
    ELSE [ok |-> FALSE, thoughts |-> thoughts]

\* intermediate.rs 11-32
append_to_conversation(step, thoughts) ==
    AppendParsed(thoughts, step.observation, ParsedLog(step.action.log))

RECURSIVE AppendAll(_, _)
\* core.rs 53, 57: ? returns the Err of a step, otherwise the loop goes on
AppendRest(step_list, appended) ==
    IF appended.ok THEN AppendAll(step_list, appended.thoughts)
    ELSE NoScratchpad

\* core.rs 52-54, 56-58: the loop over the steps
AppendAll(step_list, thoughts) ==
    IF step_list = <<>> THEN [ok |-> TRUE, thoughts |-> thoughts]
    ELSE AppendRest(Tail(step_list),
                    append_to_conversation(Head(step_list), thoughts))

\* core.rs 37-62
construct_scratchpad(intermediate_steps) ==
    LET len == Len(intermediate_steps)
    IN  IF len > SUMMARY_THRESHOLD
        THEN AppendAll(SubSeq(intermediate_steps, len - MAX_STEPS + 1, len),
                       <<create_summary_message(
                             SubSeq(intermediate_steps, 1, len - MAX_STEPS))>>)
        ELSE AppendAll(intermediate_steps, <<>>)

(***************************************************************************)
(* Step lists handed to construct_scratchpad.  The i-th step of a list has *)
(* its own tool-call id and observation; its log is the one the            *)
(* accumulator writes for that id, or does not parse: a text that is not   *)
(* JSON, or the log the accumulator writes when it has seen no id.         *)
(***************************************************************************)
StepId(i) == <<"call_", ToString(i)>>
StepObservation(i) == <<"result_", ToString(i)>>
ToolName == <<"g", "e", "t">>

GoodStep(i) ==
    Step(ToActionChunk([name |-> JStr(ToolName), args |-> <<>>,
                        id |-> JStr(StepId(i))], <<>>),
         StepObservation(i))

NotJson == <<"tool_id", ":">>

BadSteps(i) ==
    { Step(AgentAction(ToolName, EmptyObject, NotJson), StepObservation(i)),
      Step(ToActionChunk([name |-> JStr(ToolName), args |-> <<>>, id |-> JNull],
                         <<>>),
           StepObservation(i)) }

StepsAt(i) == {GoodStep(i)} \cup BadSteps(i)

Parses(step) == ParsedLog(step.action.log).ok

BadCount(step_list) ==
    Cardinality({i \in 1..Len(step_list) : ~Parses(step_list[i])})

\* the caller records one more step
PushStep(step) ==
    /\ pad_pc = "collect"
    /\ Len(pad_steps) < MaxSteps
    /\ Parses(step) \/ BadCount(pad_steps) < MaxBadSteps
    /\ pad_steps' = Append(pad_steps, step)
    /\ UNCHANGED <<pad_pc, scratchpad, accumulator, planning, executor>>

\* core.rs 161, 199, 233: the planner builds the scratchpad from the steps
ConstructScratchpad ==
    /\ pad_pc = "collect"
    /\ scratchpad' = construct_scratchpad(pad_steps)
    /\ pad_pc' = "built"
    /\ UNCHANGED <<pad_steps, accumulator, planning, executor>>

PadInit == Constructed({0}, {FALSE})

PadNext ==
    \/ \E step \in StepsAt(Len(pad_steps) + 1) : PushStep(step)
    \/ ConstructScratchpad

PadSpec == PadInit /\ [][PadNext]_vars

\* the message is the assistant message carrying the step's tool-call batch
IsAssistantOf(message, step) ==
    /\ message.role = "ai"
    /\ message.tool_calls = ToolCallsValue(ParsedLog(step.action.log))

\* the message is the step's tool-result message
IsToolResultOf(message, step) ==
    /\ message.role = "tool"
    /\ message.content = step.observation
    /\ message.tool_call_id = ParsedLog(step.action.log).tool_id

\* messages[from + 1 .. from + 2n] are the message-pairs of the n steps, in order
PairsFrom(messages, from, step_list) ==
    /\ Len(messages) = from + 2 * Len(step_list)
    /\ \A i \in 1..Len(step_list) :
           /\ IsAssistantOf(messages[from + 2 * i - 1], step_list[i])
           /\ IsToolResultOf(messages[from + 2 * i], step_list[i])

\* C26: for a step list of length n <= 10, each step with its own tool-call
\* batch, the builder returns no summary message and one message-pair per step,
\* in step order: the assistant message with the step's batch, then the step's
\* tool-result message.
C26_PairPerStep ==
    (pad_pc = "built" /\ Len(pad_steps) <= SUMMARY_THRESHOLD
        /\ BadCount(pad_steps) = 0) =>
        /\ scratchpad.ok
        /\ PairsFrom(scratchpad.thoughts, 0, pad_steps)

\* the message is the summary of n steps
IsSummaryOf(message, n) ==
    /\ message.role = "system"
    /\ message.content = create_summary_message([i \in 1..n |-> i]).content

\* C27: for a step list of length L > 10 the builder returns exactly one
\* summary message first, stating the count L - 5, followed by exactly 5
\* message-pairs for the last 5 steps in order, and nothing for the first L - 5.
C27_SummaryThenFivePairs ==
    (pad_pc = "built" /\ Len(pad_steps) > SUMMARY_THRESHOLD
        /\ BadCount(pad_steps) = 0) =>
        /\ scratchpad.ok
        /\ IsSummaryOf(scratchpad.thoughts[1], Len(pad_steps) - MAX_STEPS)
        /\ PairsFrom(scratchpad.thoughts, 1,
                     SubSeq(pad_steps, Len(pad_steps) - MAX_STEPS + 1,
                            Len(pad_steps)))

\* C28: whenever a step of the list has an unparsable action log the build
\* fails; the builder never returns a message sequence in which such a step was
\* skipped, whatever the length of the list.
C28_UnparsableStepIsFatal ==
    (pad_pc = "built" /\ BadCount(pad_steps) > 0) => ~scratchpad.ok

\* C33: the partial action accumulate returns reflects the cumulative state:
\* its tool is the name recorded so far, its log carries the id recorded so
\* far, and its tool_input is the concatenation of all the argument fragments
\* received so far ("{}" while that is blank), not only the latest fragment.
C33_PartialActionCumulative ==
    (acc_pc = "open" /\ fragments > 0) =>
        /\ produced.tool = UnwrapOrDefault(acc.name)
        /\ ParseLogTools(produced.log).tool_id = UnwrapOrDefault(acc.id)
        /\ produced.tool_input = ProcessedArgs(Concat(fed_args))

\* the id in the log of an action
LogId(action) == ParseLogTools(action.log).tool_id

C34_TakeState == acc_pc \in {"taken", "retaken"} => acc.args = <<>>

C34_TakeStep ==
    acc_pc' # acc_pc =>
        /\ acc'.id = acc.id
        /\ acc'.name = acc.name
        /\ acc'.args = <<>>
        /\ acc_pc = "taken" =>
               /\ produced'.tool = produced.tool
               /\ LogId(produced') = LogId(produced)
               /\ produced'.tool_input = EmptyObject

\* C34: take_action resets the argument buffer only: it leaves the recorded id
\* and name unchanged and the buffer empty, so a second take_action with no
\* accumulate in between returns an action with the same tool and id and
\* tool_input "{}".
C34_TakeResetsArgsOnly == []C34_TakeState /\ [][C34_TakeStep]_vars

C34_Witness ==
    /\ acc_pc = "retaken"
    /\ acc.name = JStr(<<"g", "e", "t">>)
    /\ acc.id = JStr(<<"call_1">>)
    /\ Trim(Concat(fed_args)) # <<>>
    /\ produced.tool = <<"g", "e", "t">>
    /\ LogId(produced) = <<"call_1">>
    /\ produced.tool_input = EmptyObject

\* the chunks whose delta carries tool_calls, and their argument fragments
CarriesToolCalls(chunk) == chunk.delta /\ chunk.tool_calls.present

ToolCallFragments ==
    [i \in 1..Len(SelectSeq(chunks, CarriesToolCalls)) |->
        SelectSeq(chunks, CarriesToolCalls)[i].tool_calls.call.arguments.v]

\* C31: in a streaming planner cycle every model delta that carries tool_calls
\* is fed to the cycle's accumulator (its argument fragment is appended), and
\* the accumulator is drained exactly once, at the end of a cycle that ends in
\* an Action: no tool-call delta is dropped and no Action is drained twice.
C31_EveryToolCallDeltaFed ==
    /\ fed_args = ToolCallFragments
    /\ acc_pc # "retaken"
    /\ (plan_pc = "ended" /\ Last(yielded).kind = "action") => acc_pc = "taken"

\* C32: a planner stream that does not fail yields Delta items only while it
\* runs, and once it has ended its last item is a Final and is the only one:
\* no Delta follows a Final and no stream ends without a Final, also when the
\* model stream ends without a finish_reason.
C32_DeltasThenOneFinal ==
    /\ plan_pc = "streaming" =>
           \A i \in 1..Len(yielded) : ~yielded[i].final
    /\ plan_pc = "ended" =>
           /\ yielded # <<>>
           /\ Last(yielded).final
           /\ \A i \in 1..(Len(yielded) - 1) : ~yielded[i].final

C32_Witness ==
    /\ plan_pc = "ended"
    /\ Len(chunks) = 2
    /\ \A i \in 1..Len(chunks) : chunks[i].finish_reason = JNull
    /\ Len(yielded) = 3
    /\ yielded[1].kind = "content"
    /\ yielded[2].kind = "action"
    /\ yielded[3] = FinalAction(produced)

\* the content fragments of the cycle
IsContent(chunk) == chunk.delta /\ chunk.content.t = "string"

ContentFragments ==
    [i \in 1..Len(SelectSeq(chunks, IsContent)) |->
        SelectSeq(chunks, IsContent)[i].content.v]

\* C37: a streaming planner cycle ends with a terminal Action if and only if
\* at least one tool-call delta was accumulated during the cycle, whatever
\* finish_reason the model reports, and that Action names a tool; otherwise
\* it ends with Finish whose output is the concatenation of the cycle's
\* content fragments.
C37_ActionIffToolCallAccumulated ==
    plan_pc = "ended" =>
        /\ Last(yielded).kind = "action" <=> fragments > 0
        /\ Last(yielded).kind = "action" => Last(yielded).action.tool # <<>>
        /\ Last(yielded).kind = "finish" =>
               Last(yielded).text = Concat(ContentFragments)

\* the registered tools whose normalized name is the action's normalized name
Matching(action) ==
    {i \in 1..Len(Tools) : NormalizeName(Tools[i]) = NormalizeName(action.tool)}

\* the step of call() or stream() that looks up the tool of the next action
LooksUp == mode \in {"call", "stream"} /\ pc = "batch" /\ batch # <<>> /\ pc' # pc

C35_LookupStep ==
    LooksUp =>
        /\ Matching(Head(batch)) = {} =>
               /\ exit' = "tool_not_found"
               /\ tool_log' = tool_log
        /\ Matching(Head(batch)) # {} =>
               /\ exit' = exit
               /\ Len(tool_log') = Len(tool_log) + 1
               /\ Last(tool_log').action = Head(batch)
               /\ Last(tool_log').tool \in Matching(Head(batch))

\* C35: registered and planner-emitted tool names go through the same
\* normalization (trim, then every space replaced by an underscore) before
\* the lookup, in call() and in stream(): an action resolves to a registered
\* tool exactly when its normalized name equals that tool's normalized
\* registered name, and the tool called is that one; otherwise the
\* invocation ends with "tool not found" and no tool is called.
C35_SameNormalization == [][C35_LookupStep]_vars

C35_Witness ==
    /\ mode = "stream"
    /\ tool_log # <<>>
    /\ Last(tool_log).action.tool = <<" ", "a", " ", "b">>
    /\ Tools[Last(tool_log).tool] = <<"a", " ", "b">>

(***************************************************************************)
(* The producer task's handling of the planner's Delta items, executor.rs  *)
(* 262-349, fed with the items of one planner stream.                      *)
(***************************************************************************)
\* the value under "tool_id" of a document read as fields
IdFieldOf(fields) ==
    IF fields.ok /\ fields.rest = <<"}">> THEN fields.values[1] ELSE JAbsent

\* executor.rs 294-296: from_str::<Value>(&action.log).unwrap_or_default()
\* .get("tool_id"), for the documents {"tool_id":_,"tools":_} and
\* {"tool_id":_}; any other text of the model has no such key or is not JSON
LogToolId(text) ==
    IF ReadFields(text, LogToolsLayout).ok
    THEN IdFieldOf(ReadFields(text, LogToolsLayout))
    ELSE IdFieldOf(ReadFields(text, <<Head(LogToolsLayout)>>))

\* executor.rs 297-315: tool_call_id of a partial action
PartialToolCallId(tool_id, fresh) ==
    IF tool_id.t = "absent" THEN fresh
    ELSE IF tool_id.t = "string" THEN tool_id.v
    ELSE <<>>

\* logs written by a planner other than OpenAIMcpAgent: {}, {"tool_id":null},
\* {"tool_id":"call_9"} and a text that is not JSON
ForeignLogs ==
    {EmptyObject,
     <<"{">> \o Key("tool_id") \o <<"null", "}">>,
     <<"{">> \o Key("tool_id") \o EncodeStr(<<"call_9">>) \o <<"}">>,
     <<"oops">>}

\* extension.rs AgentExt::plan_stream of another planner: a partial action
\* with a log of its own
ForeignDelta(log) ==
    /\ plan_pc = "foreign" \/ (plan_pc = "streaming" /\ chunks = <<>> /\ yielded = <<>>)
    /\ Len(yielded) < MaxChunks
    /\ yielded' = Append(yielded,
                         DeltaAction(AgentAction(<<"g", "e", "t">>, EmptyObject, log)))
    /\ plan_pc' = "foreign"
    /\ UNCHANGED <<model_output, has_tool_calls, chunks, accumulator, pad, executor>>

\* executor.rs 262-349: the next item of the planner stream is a Delta
ForwardDelta ==
    /\ deltas < Len(yielded)
    /\ yielded[deltas + 1].kind \in {"content", "action"}
    /\ ~yielded[deltas + 1].final
    /\ deltas' = deltas + 1
    /\ IF yielded[deltas + 1].kind = "content"
       THEN /\ IF yielded[deltas + 1].text # <<>>
               THEN /\ accumulated_content' =
                           accumulated_content \o yielded[deltas + 1].text
                    /\ Send(ContentChunk(yielded[deltas + 1].text))
               ELSE UNCHANGED <<accumulated_content, tx, rx>>
            /\ UNCHANGED minted
       ELSE /\ Send(ToolCallDeltaChunk(
                       PartialToolCallId(LogToolId(yielded[deltas + 1].action.log),
                                         <<Uuid(minted + 1)>>),
                       yielded[deltas + 1].action))
            /\ minted' = (IF LogToolId(yielded[deltas + 1].action.log).t = "absent"
                          THEN minted + 1 ELSE minted)
            /\ UNCHANGED accumulated_content
    /\ UNCHANGED <<planner, config, lock, memory, mode, pc, chat_history, steps,
                   current_iteration_steps, batch, tool_call_id, closed, result,
                   in_flight, tool_log, cycle, exit, history>>

\* one planner stream and the producer task forwarding its Delta items
ForwardNext ==
    \/ PlanNext
    \/ \E log \in ForeignLogs : ForeignDelta(log)
    \/ ForwardDelta

ForwardSpec == PlanInit /\ [][ForwardNext]_vars

\* the log of the partial action the producer forwards next, and its id
NextPartialLog == yielded[deltas + 1].action.log

HasId(tool_id) == tool_id.t = "string" /\ tool_id.v # <<>>

C36_ForwardStep ==
    (deltas' = deltas + 1 /\ yielded[deltas + 1].kind = "action") =>
        /\ Len(tx') = Len(tx) + 1
        /\ Last(tx').finish_reason = Null
        /\ Last(tx').delta.tool_calls.name = yielded[deltas + 1].action.tool
        /\ ~closed' /\ exit' = "none"
        /\ IF HasId(LogToolId(NextPartialLog))
           THEN /\ Last(tx').delta.tool_calls.id = LogToolId(NextPartialLog).v
                /\ minted' = minted
           ELSE /\ minted' = minted + 1
                /\ Last(tx').delta.tool_calls.id = <<Uuid(minted')>>

\* C36: in stream(), every partial Action sub-event is forwarded as a
\* tool-call-delta chunk with finish_reason null that carries the id found in
\* the partial action's log; when the log has no id, a fresh id is minted for
\* that chunk, and in both cases the stream goes on: no terminal chunk is
\* sent and the task does not end.
C36_PartialActionForwarded == [][C36_ForwardStep]_vars

\* a content message and a tool-call message this invocation has written
WrittenContent(i) ==
    /\ i > Len(initial_memory)
    /\ memory[i].role = "ai"
    /\ memory[i].tool_calls = Absent
    /\ memory[i].content # <<>>
    /\ ~IsOther(memory[i])

WrittenToolCalls(i) == memory[i].role = "ai" /\ memory[i].tool_calls # Absent

\* C38: when two stream() invocations share one Memory, the messages one of
\* them writes at the completion of a cycle (the cycle's content message and
\* its tool-call and tool-result messages) are contiguous in Memory: no
\* message of the other invocation stands between the content message and the
\* tool-call message that follows it.
C38_CycleWritesContiguous ==
    \A i \in 2..(Len(memory) - 1) :
        IsOther(memory[i]) => ~(WrittenContent(i - 1) /\ WrittenToolCalls(i + 1))

\* the step's tool-result message is among the messages of the chat history
\* that the turn has added
InChatHistory(step) ==
    \E i \in (Len(initial_memory) + 1)..Len(chat_history) :
        /\ chat_history[i].role = "tool"
        /\ chat_history[i].tool_call_id = step.action.log.tool_id
        /\ chat_history[i].content = step.observation

\* C39: in every planner call of a stream() invocation with a Memory, each
\* executed step of the turn is presented to the planner at most once: no
\* step of the list the agent_scratchpad is rendered from has its tool result
\* in the injected chat_history as well.
C39_StepPresentedOnce ==
    (mode = "stream" /\ has_memory /\ pc = "plan_stream") =>
        \A k \in 1..Len(steps) : ~InChatHistory(steps[k])

\* C40: whenever call() returns an error (planner failure, tool not found,
\* tool failure under break_if_error, or a serialization failure while the
\* turn is persisted at Finish), Memory holds exactly the messages it held
\* when the call began: a failed call leaves no partial turn in Memory.
C40_FailedCallLeavesMemory ==
    (mode = "call" /\ pc = "done" /\ result.status = "err") =>
        memory = initial_memory

====
